---- MODULE Spec2Model ----
(***************************************************************************)
(* Model of the agentic execution engine: MultiAgentOrchestrator           *)
(* (src/src/frameworks/memory/memory-system.ts, lines 502-1201),           *)
(* ReasoningEngine (src/src/frameworks/reasoning/reasoning-engine.ts),     *)
(* and the request boundary over them: AGIFramework.processMessage and     *)
(* orchestrateAgents (src/src/frameworks/agi-framework.ts) with            *)
(* MemorySystem.storeContext, behind the routes of AGIServer               *)
(* (src/unnamed/part_004).                                                 *)
(*                                                                         *)
(* Texts (tasks, generator replies, step inputs and outputs) are sequences *)
(* of one-character strings, so that split / trim / indexOf / toUpperCase  *)
(* are computed character by character as the code computes them.          *)
(* Numbers that the code keeps as floating point (the running means) are   *)
(* exact rationals <<numerator, denominator>> in lowest terms.             *)
(* One JavaScript turn (the code between two awaits) is one action.        *)
(***************************************************************************)
EXTENDS Integers, Sequences, FiniteSets, TLC

(***************************************************************************)
(* Bounds of the model.                                                    *)
(***************************************************************************)
\* longest agent id list a request carries
MaxAgents == 3
\* number of collaborate requests that may overlap in time (SpecLoad)
MaxRequests == 2

(***************************************************************************)
(* Text primitives (JavaScript String methods used by the orchestrator).   *)
(***************************************************************************)
Whitespace == {" ", "\n", "\t", "\r"}

LowerLetters ==
  <<"a", "b", "c", "d", "e", "f", "g", "h", "i", "j", "k", "l", "m",
    "n", "o", "p", "q", "r", "s", "t", "u", "v", "w", "x", "y", "z">>

UpperLetters ==
  <<"A", "B", "C", "D", "E", "F", "G", "H", "I", "J", "K", "L", "M",
    "N", "O", "P", "Q", "R", "S", "T", "U", "V", "W", "X", "Y", "Z">>

\* String.prototype.toUpperCase on one character
UpperChar(c) ==
  IF \E i \in 1..Len(LowerLetters) : LowerLetters[i] = c
    THEN UpperLetters[CHOOSE i \in 1..Len(LowerLetters) : LowerLetters[i] = c]
    ELSE c

\* String.prototype.toUpperCase
toUpperCase(s) == [i \in 1..Len(s) |-> UpperChar(s[i])]

\* 1-based position of the first occurrence of pat in s, 0 when there is none
\* (String.prototype.indexOf, which answers -1 for 'none' on 0-based positions)
indexOf(s, pat) ==
  LET hits == {i \in 1..(Len(s) - Len(pat) + 1) : SubSeq(s, i, i + Len(pat) - 1) = pat}
  IN  IF hits = {} THEN 0 ELSE CHOOSE i \in hits : \A j \in hits : i <= j

\* String.prototype.includes
includes(s, pat) == indexOf(s, pat) > 0

\* String.prototype.trim
RECURSIVE trimStart(_)
trimStart(s) ==
  IF s # <<>> /\ Head(s) \in Whitespace THEN trimStart(Tail(s)) ELSE s

RECURSIVE trimEnd(_)
trimEnd(s) ==
  IF s # <<>> /\ s[Len(s)] \in Whitespace THEN trimEnd(SubSeq(s, 1, Len(s) - 1)) ELSE s

trim(s) == trimEnd(trimStart(s))

\* String.prototype.split with a non-empty separator: left-to-right,
\* non-overlapping; a text without the separator is one piece
RECURSIVE split(_, _)
split(s, sep) ==
  LET k == indexOf(s, sep)
  IN  IF k = 0 THEN <<s>>
      ELSE <<SubSeq(s, 1, k - 1)>> \o split(SubSeq(s, k + Len(sep), Len(s)), sep)

\* Array.prototype.slice(0, n)
slice0(xs, n) == SubSeq(xs, 1, IF n < Len(xs) THEN n ELSE Len(xs))

\* a text of n copies of the character c
Fill(c, n) == [i \in 1..n |-> c]

(***************************************************************************)
(* Fixed texts of the orchestrator.                                        *)
(***************************************************************************)
ErrorPrefix == <<"E", "r", "r", "o", "r", ":", " ">>
UnknownErrorText == <<"U", "n", "k", "n", "o", "w", "n", " ", "e", "r", "r", "o", "r">>
NoResultText == <<"N", "o", " ", "r", "e", "s", "u", "l", "t">>
AllParallelFailedText ==
  <<"A", "l", "l", " ", "p", "a", "r", "a", "l", "l", "e", "l", " ", "t", "a", "s", "k", "s", " ",
    "f", "a", "i", "l", "e", "d", ".", " ", "U", "n", "a", "b", "l", "e", " ", "t", "o", " ",
    "s", "y", "n", "t", "h", "e", "s", "i", "z", "e", " ", "r", "e", "s", "u", "l", "t", "s", ".">>
FailedToSynthesizeText ==
  <<"F", "a", "i", "l", "e", "d", " ", "t", "o", " ", "s", "y", "n", "t", "h", "e", "s", "i", "z", "e",
    " ", "r", "e", "s", "u", "l", "t", "s">>
FailedFinalSynthesisText ==
  <<"F", "a", "i", "l", "e", "d", " ", "t", "o", " ", "s", "y", "n", "t", "h", "e", "s", "i", "z", "e",
    " ", "f", "i", "n", "a", "l", " ", "r", "e", "s", "u", "l", "t">>
SynthesisInputText ==
  <<"S", "y", "n", "t", "h", "e", "s", "i", "s", " ", "o", "f", " ", "w", "o", "r", "k", "e", "r",
    " ", "r", "e", "s", "u", "l", "t", "s">>
SubtaskMarker == <<"S", "U", "B", "T", "A", "S", "K">>

\* parseSubtasks: a fallback paragraph is kept when its trimmed length exceeds this
ParagraphMinLength == 50
\* parseSubtasks: the fallback keeps at most this many paragraphs
MaxFallbackSubtasks == 3

(***************************************************************************)
(* parseSubtasks(breakdown)                                                *)
(***************************************************************************)
\* the subtask a marker line contributes: none without a colon
SubtaskOfLine(line) ==
  IF includes(toUpperCase(line), SubtaskMarker)
    THEN LET colonIndex == indexOf(line, <<":">>)
         IN  IF colonIndex > 0
               THEN <<trim(SubSeq(line, colonIndex + 1, Len(line)))>>
               ELSE <<>>
    ELSE <<>>

RECURSIVE MarkedSubtasks(_)
MarkedSubtasks(lines) ==
  IF lines = <<>> THEN <<>>
  ELSE SubtaskOfLine(Head(lines)) \o MarkedSubtasks(Tail(lines))

\* the comparison of line 1126 taken as 'at least'
LongParagraphInclusive(p) == Len(trim(p)) >= ParagraphMinLength

\* line 1126: p.trim().length > 50
LongParagraph(p) == Len(trim(p)) > ParagraphMinLength

\* the paragraphs are appended to the marked subtasks instead of replacing
\* an empty scan
parseSubtasksAppendingParagraphs(breakdown) ==
  MarkedSubtasks(split(breakdown, <<"\n">>))
    \o slice0(SelectSeq(split(breakdown, <<"\n", "\n">>), LongParagraph), MaxFallbackSubtasks)

\* lines 1110-1131
parseSubtasks(breakdown) ==
  LET subtasks == MarkedSubtasks(split(breakdown, <<"\n">>))
  IN  IF Len(subtasks) = 0
        THEN slice0(SelectSeq(split(breakdown, <<"\n", "\n">>), LongParagraph), MaxFallbackSubtasks)
        ELSE subtasks

(***************************************************************************)
(* Exact arithmetic for the running means.                                 *)
(***************************************************************************)
RECURSIVE Gcd(_, _)
Gcd(a, b) == IF b = 0 THEN a ELSE Gcd(b, a % b)

Abs(n) == IF n < 0 THEN 0 - n ELSE n

\* the rational n/d (d > 0) in lowest terms
Rat(n, d) ==
  LET g == Gcd(Abs(n), d)
  IN  <<n \div g, d \div g>>

(***************************************************************************)
(* The agent registry.                                                     *)
(***************************************************************************)
predefinedAgents ==
  <<
    [id |-> "analyst", name |-> "Data Analyst", role |-> "Analysis and Research",
     capabilities |-> <<"data_analysis", "research", "pattern_recognition", "statistical_analysis">>,
     model |-> "gpt-4", temperature |-> <<3, 10>>, max_tokens |-> 1000,
     system_prompt |-> "You are an expert data analyst. Analyze information objectively, identify patterns, and provide evidence-based insights. Focus on accuracy and statistical significance.",
     tools |-> <<"calculator", "data_visualization", "statistical_tests">>],
    [id |-> "creative", name |-> "Creative Designer", role |-> "Creative and Design",
     capabilities |-> <<"creative_writing", "design_thinking", "brainstorming", "visual_concepts">>,
     model |-> "gpt-4", temperature |-> <<8, 10>>, max_tokens |-> 1200,
     system_prompt |-> "You are a creative professional specializing in innovative thinking and design. Generate original ideas, think outside the box, and create engaging content.",
     tools |-> <<"image_generation", "color_palette", "typography">>],
    [id |-> "technical", name |-> "Technical Architect", role |-> "Technical Implementation",
     capabilities |-> <<"software_architecture", "code_review", "system_design", "performance_optimization">>,
     model |-> "gpt-4", temperature |-> <<2, 10>>, max_tokens |-> 1500,
     system_prompt |-> "You are a senior technical architect. Focus on scalable solutions, best practices, security, and performance. Provide detailed technical specifications.",
     tools |-> <<"code_analysis", "architecture_diagrams", "performance_testing">>],
    [id |-> "strategist", name |-> "Business Strategist", role |-> "Strategic Planning",
     capabilities |-> <<"strategic_planning", "business_analysis", "market_research", "risk_assessment">>,
     model |-> "gpt-4", temperature |-> <<4, 10>>, max_tokens |-> 1000,
     system_prompt |-> "You are a business strategist with extensive experience in planning and execution. Focus on ROI, market opportunities, and strategic alignment.",
     tools |-> <<"market_analysis", "financial_modeling", "swot_analysis">>],
    [id |-> "reviewer", name |-> "Quality Reviewer", role |-> "Quality Assurance",
     capabilities |-> <<"quality_review", "error_detection", "compliance_check", "process_improvement">>,
     model |-> "gpt-4", temperature |-> <<1, 10>>, max_tokens |-> 800,
     system_prompt |-> "You are a quality assurance specialist. Review work for accuracy, completeness, and compliance. Identify potential issues and suggest improvements.",
     tools |-> <<"checklist_validation", "compliance_scanner", "quality_metrics">>],
    [id |-> "communicator", name |-> "Communications Expert", role |-> "Communication and Presentation",
     capabilities |-> <<"clear_communication", "presentation_skills", "audience_adaptation", "storytelling">>,
     model |-> "gpt-4", temperature |-> <<6, 10>>, max_tokens |-> 1000,
     system_prompt |-> "You are a communications expert. Transform complex information into clear, engaging content tailored to the target audience.",
     tools |-> <<"presentation_builder", "audience_analyzer", "content_optimizer">>]
  >>

\* Map.prototype.set on the registry
setAgent(map, agent) ==
  [id \in (DOMAIN map) \cup {agent.id} |-> IF id = agent.id THEN agent ELSE map[id]]

RECURSIVE setAll(_, _)
setAll(map, list) ==
  IF list = <<>> THEN map ELSE setAll(setAgent(map, Head(list)), Tail(list))

\* the registry of a freshly constructed orchestrator: new Map()
EmptyRegistry == [id \in {} |-> id]

(***************************************************************************)
(* Inputs.                                                                 *)
(***************************************************************************)
\* agent ids a request may name; "ghost" is never registered
RequestableIds == {"analyst", "creative", "ghost"}

RECURSIVE SeqsUpTo(_, _)
SeqsUpTo(S, n) ==
  IF n = 0 THEN {<<>>}
  ELSE LET shorter == SeqsUpTo(S, n - 1)
       IN  shorter \cup {Append(s, x) : s \in {t \in shorter : Len(t) = n - 1}, x \in S}

AgentIdLists == SeqsUpTo(RequestableIds, MaxAgents)

\* "debate" stands for any string outside the three known types
CollaborationTypes == {"sequential", "parallel", "hierarchical", "debate"}

TheTask == <<"t">>

Content(text) == [kind |-> "content", text |-> text]
\* the call rejects with an Error carrying a message
Failure(message) == [kind |-> "error", text |-> message]
\* the call rejects with a value that is not an Error
Thrown == [kind |-> "thrown", text |-> <<>>]
NoReply == [kind |-> "pending", text |-> <<>>]

AgentReplies == {Content(<<>>), Content(<<"a">>), Failure(<<"e">>), Thrown}

\* replies of the leader's decomposition call
Breakdowns ==
  { <<"S", "U", "B", "T", "A", "S", "K", " ", "1", ":", " ", "x", "\n",
      "s", "u", "b", "t", "a", "s", "k", " ", "2", ":", " ", "y">>,
    Fill("p", 51) \o <<"\n", "\n">> \o Fill("q", 51),
    Fill("p", 50) \o <<"\n", "\n">> \o Fill("q", 51),
    Fill("p", 51) \o <<"\n", "\n">> \o Fill("q", 50),
    Fill("p", 50) \o <<"\n", "\n">> \o Fill("q", 50),
    <<" ">> \o Fill("p", 49) \o <<" ", "\n", "\n">> \o Fill("q", 52),
    <<"S", "U", "B", "T", "A", "S", "K", "\n",
      "s", "u", "b", "t", "a", "s", "k", ":", " ", "a", ":", "b", " ">>,
    <<"S", "U", "B", "T", "A", "S", "K", " ", "1", "\n", "\n">> \o Fill("q", 51),
    Fill("p", 51) \o <<"\n", "\n">> \o Fill("q", 51) \o <<"\n", "\n">>
      \o Fill("r", 51) \o <<"\n", "\n">> \o Fill("s", 51),
    Fill("p", 51) \o <<"\n", "\n", "S", "u", "b", "t", "a", "s", "k", ":", "z">> }

LeaderReplies == {Content(b) : b \in Breakdowns} \cup {Failure(<<"e">>)}

DetailRequests ==
  [task : {TheTask}, agents : AgentIdLists, type : CollaborationTypes]

\* the requests of the overlapping-requests specification
LoadRequests ==
  { [task |-> TheTask, agents |-> <<"analyst">>, type |-> "sequential"],
    [task |-> TheTask, agents |-> <<"ghost">>, type |-> "sequential"],
    [task |-> TheTask, agents |-> <<"analyst">>, type |-> "parallel"],
    [task |-> TheTask, agents |-> <<"analyst", "creative">>, type |-> "hierarchical"] }

LoadReplies == {Content(<<"a">>), Failure(<<"e">>)}

LoadLeaderReplies ==
  {Content(<<"S", "U", "B", "T", "A", "S", "K", ":", "x">>), Failure(<<"e">>)}

ReqIds == 1..MaxRequests

(***************************************************************************)
(* State.                                                                  *)
(***************************************************************************)
VARIABLES
  agents,          \* this.agents: the registry, a map from id to Agent
  stats,           \* this.stats
  now,             \* Date.now()
  pc,              \* per request: where the collaborate invocation stands
  request,         \* per request: the CollaborationRequest
  startTime,       \* per request: collaborate's startTime
  selectedAgents,  \* per request: the agents validateAndGetAgents resolved
  steps,           \* per request: the steps array
  currentInput,    \* per request: sequentialCollaboration's currentInput
  results,         \* per request: the values of the branch promises given to Promise.all
  taskBreakdown,   \* per request: the leader's decomposition
  subtasks,        \* per request: the subtasks parsed from the decomposition
  calls,           \* per request: generator calls issued, with their replies
  result,          \* per request: the CollaborationResult returned
  error,           \* per request: the error thrown
  engine,          \* ReasoningEngine, per request: the locals of process and its methodology
  engineStats,     \* ReasoningEngine: this.stats
  lifecycle,       \* AGIFramework: where the latest initialize() or shutdown() call stands
  isInitialized,   \* AGIFramework: this.isInitialized
  memory,          \* MemorySystem: isConnected, the contexts stored, this.stats.total_contexts
  http,            \* AGIServer, per request: where the route handler stands, and its response
  dropped          \* generator: the requests whose outstanding call is never answered

vars ==
  <<agents, stats, now, pc, request, startTime, selectedAgents, steps,
    currentInput, results, taskBreakdown, subtasks,
    calls, result, error, engine, engineStats, lifecycle, isInitialized, memory, http,
    dropped>>

\* the state of the MultiAgentOrchestrator (the clock apart)
orchestratorVars ==
  <<agents, stats, pc, request, startTime, selectedAgents, steps,
    currentInput, results, taskBreakdown, subtasks, calls, result, error>>

\* the state of the ReasoningEngine (the clock apart)
reasoningVars == <<engine, engineStats>>

\* the state of AGIFramework, MemorySystem and AGIServer, and of the generator
frameworkVars == <<lifecycle, isInitialized, memory, http, dropped>>

None == [kind |-> "none"]

(***************************************************************************)
(* The constructors: MultiAgentOrchestrator (lines 562-574),               *)
(* ReasoningEngine (reasoning-engine.ts, lines 45-57), MemorySystem        *)
(* (memory-system.ts, lines 44-52), AGIFramework (agi-framework.ts, lines  *)
(* 73-83) and AGIServer (unnamed/part_004, lines 32-40).                   *)
(***************************************************************************)
Init ==
  /\ agents = EmptyRegistry
  /\ stats = [total_collaborations |-> 0,
              avg_agents_per_task |-> Rat(5, 2),
              success_rate |-> Rat(95, 100),
              avg_execution_time |-> Rat(5000, 1)]
  /\ now = 0
  /\ pc = [r \in ReqIds |-> "idle"]
  /\ request = [r \in ReqIds |-> None]
  /\ startTime = [r \in ReqIds |-> 0]
  /\ selectedAgents = [r \in ReqIds |-> <<>>]
  /\ steps = [r \in ReqIds |-> <<>>]
  /\ currentInput = [r \in ReqIds |-> <<>>]
  /\ results = [r \in ReqIds |-> <<>>]
  /\ taskBreakdown = [r \in ReqIds |-> <<>>]
  /\ subtasks = [r \in ReqIds |-> <<>>]
  /\ calls = [r \in ReqIds |-> <<>>]
  /\ result = [r \in ReqIds |-> None]
  /\ error = [r \in ReqIds |-> None]
  /\ engine = [r \in ReqIds |->
                 [pc |-> "idle", request |-> None, startTime |-> 0, reasoning |-> <<>>,
                  currentInput |-> None, thought |-> <<>>, thoughts |-> <<>>,
                  initialResponse |-> <<>>, reflection |-> <<>>, totalTokens |-> 0,
                  calls |-> <<>>, result |-> None, error |-> None]]
  /\ engineStats = [total_processes |-> 0, success_rate |-> Rat(1, 1),
                    avg_processing_time |-> Rat(0, 1), avg_tokens_used |-> Rat(0, 1)]
  /\ lifecycle = "constructed"
  /\ isInitialized = FALSE
  /\ memory = [isConnected |-> FALSE, records |-> <<>>, total_contexts |-> 0]
  /\ http = [r \in ReqIds |->
               [pc |-> "idle", route |-> "none", body |-> None, result |-> None,
                validation |-> None, storeFailed |-> FALSE, response |-> None]]
  /\ dropped = {}

(***************************************************************************)
(* initialize / initializePredefinedAgents (lines 576-665)                 *)
(***************************************************************************)
Initialize ==
  /\ agents' = setAll(agents, predefinedAgents)
  /\ UNCHANGED <<stats, now, pc, request, startTime, selectedAgents, steps,
                 currentInput, results, taskBreakdown, subtasks,
                 calls, result, error>>

(***************************************************************************)
(* validateAndGetAgents (lines 1133-1149)                                  *)
(***************************************************************************)
\* resolves only the ids that are registered and reports no unknown id
validateAndGetAgentsSkipping(registry, agentIds) ==
  LET known == SelectSeq(agentIds, LAMBDA id : id \in DOMAIN registry)
  IN  IF Len(known) = 0
        THEN [ok |-> FALSE, error |-> [kind |-> "NoValidAgents"]]
        ELSE [ok |-> TRUE, agents |-> [i \in 1..Len(known) |-> registry[known[i]]]]

\* an empty list is reported as an unknown agent
validateAndGetAgentsConflating(registry, agentIds) ==
  LET unknown == {i \in 1..Len(agentIds) : agentIds[i] \notin DOMAIN registry}
  IN  IF unknown # {} \/ Len(agentIds) = 0
        THEN [ok |-> FALSE,
              error |-> [kind |-> "AgentNotFound",
                         id |-> IF unknown = {} THEN ""
                                ELSE agentIds[CHOOSE i \in unknown : \A j \in unknown : i <= j]]]
        ELSE [ok |-> TRUE, agents |-> [i \in 1..Len(agentIds) |-> registry[agentIds[i]]]]

validateAndGetAgents(registry, agentIds) ==
  LET unknown == {i \in 1..Len(agentIds) : agentIds[i] \notin DOMAIN registry}
  IN  IF unknown # {}
        THEN [ok |-> FALSE,
              error |-> [kind |-> "AgentNotFound",
                         id |-> agentIds[CHOOSE i \in unknown : \A j \in unknown : i <= j]]]
        ELSE IF Len(agentIds) = 0
          THEN [ok |-> FALSE, error |-> [kind |-> "NoValidAgents"]]
          ELSE [ok |-> TRUE, agents |-> [i \in 1..Len(agentIds) |-> registry[agentIds[i]]]]

(***************************************************************************)
(* updateStats (lines 1151-1162)                                           *)
(***************************************************************************)
\* the previous mean is weighted by total instead of total - 1
RunningMeanUndiscounted(mean, total, x) ==
  Rat(mean[1] * total + x * mean[2], mean[2] * total)

\* ((mean * (total - 1)) + x) / total
RunningMean(mean, total, x) ==
  Rat(mean[1] * (total - 1) + x * mean[2], mean[2] * total)

updateStats(st, executionTime, agentCount, success) ==
  LET total == st.total_collaborations
  IN  [st EXCEPT
         !.success_rate = RunningMean(st.success_rate, total, IF success THEN 1 ELSE 0),
         !.avg_execution_time = RunningMean(st.avg_execution_time, total, executionTime),
         !.avg_agents_per_task = RunningMean(st.avg_agents_per_task, total, agentCount)]

(***************************************************************************)
(* Prompts and generator calls.                                            *)
(***************************************************************************)
\* buildAgentPrompt (lines 971-1002): the variable parts of the prompt
buildAgentPrompt(agent, input, stepIndex, totalSteps, type) ==
  [template |-> "agent", type |-> type, task |-> input,
   position |-> stepIndex + 1, total |-> totalSteps,
   role |-> agent.role, capabilities |-> agent.capabilities,
   previous |-> (type = "sequential" /\ stepIndex > 0),
   final |-> (type = "sequential" /\ ~(stepIndex < totalSteps - 1))]

\* buildLeaderPrompt (lines 1004-1025)
buildLeaderPrompt(leader, task, workers) ==
  [template |-> "leader", task |-> task,
   team |-> [i \in 1..Len(workers) |->
               [name |-> workers[i].name, role |-> workers[i].role,
                capabilities |-> workers[i].capabilities]]]

\* buildWorkerPrompt (lines 1027-1038)
buildWorkerPrompt(worker, subtask, originalTask) ==
  [template |-> "worker", task |-> originalTask, subtask |-> subtask,
   role |-> worker.role, capabilities |-> worker.capabilities]

\* executeAgentTask (lines 951-969): the chat completion it requests
executeAgentTask(agent, prompt) ==
  [model |-> agent.model, system |-> agent.system_prompt, user |-> prompt,
   max_tokens |-> agent.max_tokens, temperature |-> agent.temperature,
   reply |-> NoReply]

\* a || b on strings
OrElse(text, fallback) == IF text = <<>> THEN fallback ELSE text

\* `Error: ${error instanceof Error ? error.message : 'Unknown error'}`
ErrorOutput(reply) ==
  ErrorPrefix \o (IF reply.kind = "error" THEN reply.text ELSE UnknownErrorText)

\* Array.prototype.some(r => r.success)
some(rs) == \E i \in 1..Len(rs) : rs[i].success

\* Array.prototype.every(r => r.success)
every(rs) == \A i \in 1..Len(rs) : rs[i].success

\* only the successful results are pushed
pushSuccessful(ss, rs) == ss \o SelectSeq(rs, LAMBDA s : s.success)

\* steps.push(...results) (lines 833, 914)
pushAll(ss, rs) == ss \o rs

Pending == [step_number |-> 0]

\* the CollaborationStep a settled agent call produces (its timestamp and
\* execution_time, two wall-clock readings, are left out)
StepOf(number, agent, input, reply) ==
  [step_number |-> number, agent |-> agent, input |-> input,
   output |-> IF reply.kind = "content" THEN reply.text ELSE ErrorOutput(reply),
   success |-> (reply.kind = "content")]

\* the value is stored in the order in which the promises settle
promiseAllPositionBySettling(index, settledBefore) == settledBefore + 1

\* Promise.all: the value of promise number index (1-based) is stored at
\* position index of the array it resolves with, whenever it settles
promiseAllPosition(index, settledBefore) == index

\* the number of promises of the array that have settled
SettledCount(values) == Cardinality({i \in 1..Len(values) : values[i].step_number # 0})

(***************************************************************************)
(* collaborate (lines 667-716): how an invocation leaves a turn.           *)
(***************************************************************************)
\* the invocation is suspended at an await
Suspends(r, st, at) ==
  /\ pc' = [pc EXCEPT ![r] = at]
  /\ stats' = st
  /\ UNCHANGED <<result, error>>

\* lines 697-709: the topology returned res at time t
Returns(r, st, res, t) ==
  LET executionTime == t - startTime[r]
  IN  /\ result' = [result EXCEPT ![r] = [res EXCEPT !.execution_time = executionTime]]
      /\ stats' = updateStats(st, executionTime, Len(selectedAgents[r]), res.success)
      /\ pc' = [pc EXCEPT ![r] = "returned"]
      /\ UNCHANGED error

\* lines 711-715: the catch block
Throws(r, st, err, executionTime, agentCount) ==
  /\ error' = [error EXCEPT ![r] = err]
  /\ stats' = updateStats(st, executionTime, agentCount, FALSE)
  /\ pc' = [pc EXCEPT ![r] = "thrown"]
  /\ UNCHANGED result

GeneratorError(reply) == [kind |-> "Generator", reply |-> reply]

\* the reply of call k of request r arrives
Settle(cs, k, reply) == [cs EXCEPT ![k].reply = reply]

\* a fourth topology is accepted by the switch
KnownTypesWithDebate == {"sequential", "parallel", "hierarchical", "debate"}

\* lines 682-695: the cases of the switch over request.type
KnownTypes == {"sequential", "parallel", "hierarchical"}

\* requests are numbered in the order in which they arrive
NextRequest(r) == \A q \in 1..(r - 1) : pc[q] # "idle"

\* collaborate up to its first await (lines 667-695, and the first turn of
\* the chosen topology)
Collaborate(r, req) ==
  /\ pc[r] = "idle"
  /\ NextRequest(r)
  /\ LET counted == [stats EXCEPT !.total_collaborations = @ + 1]
         v == validateAndGetAgents(agents, req.agents)
         runs(type) == v.ok /\ req.type = type
         n == Len(v.agents)
     IN  /\ request' = [request EXCEPT ![r] = req]
         /\ startTime' = [startTime EXCEPT ![r] = now]
         /\ selectedAgents' = [selectedAgents EXCEPT ![r] = IF v.ok THEN v.agents ELSE @]
         /\ currentInput' = [currentInput EXCEPT ![r] =
                               IF runs("sequential") THEN req.task ELSE @]
         /\ results' = [results EXCEPT ![r] =
                          IF runs("parallel") THEN [i \in 1..n |-> Pending] ELSE @]
         /\ calls' = [calls EXCEPT ![r] =
              IF runs("sequential")
                THEN <<executeAgentTask(v.agents[1],
                          buildAgentPrompt(v.agents[1], req.task, 0, n, "sequential"))>>
              ELSE IF runs("parallel")
                THEN [i \in 1..n |->
                        executeAgentTask(v.agents[i],
                          buildAgentPrompt(v.agents[i], req.task, i - 1, n, "parallel"))]
              ELSE IF runs("hierarchical")
                THEN <<executeAgentTask(v.agents[1],
                          buildLeaderPrompt(v.agents[1], req.task, Tail(v.agents)))>>
              ELSE @]
         /\ IF ~v.ok
              THEN Throws(r, counted, v.error, 0, Len(req.agents))
            ELSE IF req.type \notin KnownTypes
              THEN Throws(r, counted, [kind |-> "UnknownType", type |-> req.type],
                          0, Len(req.agents))
            ELSE Suspends(r, counted, req.type)
         /\ UNCHANGED <<agents, now, steps, taskBreakdown, subtasks>>

(***************************************************************************)
(* sequentialCollaboration (lines 718-783)                                 *)
(***************************************************************************)
\* line 751 left out: the next agent is handed the same input again
nextInputUnchained(input, response) == input

\* line 751: currentInput = response
nextInput(input, response) == response

\* line 779
sequentialFinalResult(ss) ==
  IF Len(ss) = 0 THEN NoResultText ELSE OrElse(ss[Len(ss)].output, NoResultText)

\* the loop goes on to the next agent whatever the outcome of the step
loopContinuesPastFailure(stepSuccess, i, n) == i + 1 < n

\* lines 726, 771-772: the loop goes on to agent i + 1 unless the step failed
\* (break) or agent i was the last
loopContinues(stepSuccess, i, n) == stepSuccess /\ i + 1 < n

\* one iteration of the loop, from the reply to agent i's call to the next await
SequentialStep(r, reply, latency) ==
  /\ pc[r] = "sequential"
  /\ LET i == Len(steps[r])
         n == Len(selectedAgents[r])
         agent == selectedAgents[r][i + 1]
         t == now + latency
         step == StepOf(i + 1, agent, currentInput[r], reply)
         pushed == Append(steps[r], step)
         input == IF step.success THEN nextInput(currentInput[r], reply.text)
                                  ELSE currentInput[r]
         more == loopContinues(step.success, i, n)
     IN  /\ now' = t
         /\ steps' = [steps EXCEPT ![r] = pushed]
         /\ currentInput' = [currentInput EXCEPT ![r] = input]
         /\ calls' = [calls EXCEPT ![r] =
              IF more
                THEN Append(Settle(@, i + 1, reply),
                       executeAgentTask(selectedAgents[r][i + 2],
                         buildAgentPrompt(selectedAgents[r][i + 2], input, i + 1, n,
                                          "sequential")))
                ELSE Settle(@, i + 1, reply)]
         /\ IF more
              THEN Suspends(r, stats, "sequential")
              ELSE Returns(r, stats,
                     [task |-> request[r].task, type |-> "sequential",
                      agents_used |-> selectedAgents[r], steps |-> pushed,
                      final_result |-> sequentialFinalResult(pushed),
                      execution_time |-> 0, success |-> step.success], t)
  /\ UNCHANGED <<agents, request, startTime, selectedAgents, results, taskBreakdown, subtasks>>

(***************************************************************************)
(* parallelCollaboration (lines 785-850), synthesizeParallelResults        *)
(* (lines 1040-1073)                                                       *)
(***************************************************************************)
IsPending(s) == s.step_number = 0

AllSettled(settled) == \A i \in 1..Len(settled) : ~IsPending(settled[i])

\* the filter of line 1041 left out
successfulResultsUnfiltered(rs) == rs

\* line 1041: results.filter(r => r.success)
successfulResults(rs) == SelectSeq(rs, LAMBDA s : s.success)

\* lines 1047-1070: the synthesis call
parallelSynthesisCall(task, successful) ==
  [model |-> "gpt-4",
   system |-> "You are an expert at synthesizing multiple perspectives into coherent, comprehensive responses.",
   user |-> [template |-> "parallelSynthesis", task |-> task,
             results |-> [k \in 1..Len(successful) |->
                            [name |-> successful[k].agent.name,
                             role |-> successful[k].agent.role,
                             output |-> successful[k].output]]],
   max_tokens |-> 1500, temperature |-> <<4, 10>>, reply |-> NoReply]

ParallelResult(r, ss, final) ==
  [task |-> request[r].task, type |-> "parallel", agents_used |-> selectedAgents[r],
   steps |-> ss, final_result |-> final, execution_time |-> 0, success |-> every(ss)]

\* the first branch to settle resumes parallelCollaboration: the synthesis is
\* called for it while the other branch calls are still unanswered
ParallelBranchRacing(r, index, reply, latency) ==
  /\ pc[r] = "parallel"
  /\ index \in 1..Len(results[r])
  /\ calls[r][index].reply = NoReply
  /\ LET step == StepOf(index, selectedAgents[r][index], request[r].task, reply)
     IN  /\ now' = now + latency
         /\ results' = [results EXCEPT ![r][index] = step]
         /\ steps' = [steps EXCEPT ![r] = <<step>>]
         /\ calls' = [calls EXCEPT ![r] =
              Append(Settle(@, index, reply),
                     parallelSynthesisCall(request[r].task, <<step>>))]
         /\ Suspends(r, stats, "parallelSynthesis")
  /\ UNCHANGED <<agents, request, startTime, selectedAgents, currentInput, taskBreakdown, subtasks>>

\* a branch is handed the output of a branch that settled before it
branchInputChained(task, settled) ==
  IF \A i \in 1..Len(settled) : IsPending(settled[i]) THEN task
  ELSE settled[CHOOSE i \in 1..Len(settled) : ~IsPending(settled[i])].output

\* lines 802 and 808, 822: every branch is handed request.task
branchInput(task, settled) == task

\* the reply to branch index arrives; the last branch to settle resumes
\* parallelCollaboration after Promise.all (lines 832-839)
ParallelBranch(r, index, reply, latency) ==
  /\ pc[r] = "parallel"
  /\ index \in 1..Len(results[r])
  /\ calls[r][index].reply = NoReply
  /\ LET t == now + latency
         step == StepOf(index, selectedAgents[r][index],
                        branchInput(request[r].task, results[r]), reply)
         settled == [results[r] EXCEPT
                       ![promiseAllPosition(index, SettledCount(results[r]))] = step]
         all == AllSettled(settled)
         rs == settled
         pushed == pushAll(steps[r], rs)
         successful == successfulResults(rs)
     IN  /\ now' = t
         /\ results' = [results EXCEPT ![r] = settled]
         /\ steps' = [steps EXCEPT ![r] = IF all THEN pushed ELSE @]
         /\ calls' = [calls EXCEPT ![r] =
              IF all /\ Len(successful) # 0
                THEN Append(Settle(@, index, reply),
                            parallelSynthesisCall(request[r].task, successful))
                ELSE Settle(@, index, reply)]
         /\ IF ~all THEN Suspends(r, stats, "parallel")
            ELSE IF Len(successful) = 0
              THEN Returns(r, stats, ParallelResult(r, pushed, AllParallelFailedText), t)
            ELSE Suspends(r, stats, "parallelSynthesis")
  /\ UNCHANGED <<agents, request, startTime, selectedAgents, currentInput, taskBreakdown, subtasks>>

\* the agents whose branch failed are taken out of the registry
ParallelSynthesisRetiring(r, reply, latency) ==
  /\ pc[r] = "parallelSynthesis"
  /\ LET t == now + latency
         failed == {results[r][i].agent.id :
                      i \in {k \in 1..Len(results[r]) : ~results[r][k].success}}
     IN  /\ now' = t
         /\ agents' = [id \in DOMAIN agents \ failed |-> agents[id]]
         /\ calls' = [calls EXCEPT ![r] = Settle(@, Len(@), reply)]
         /\ IF reply.kind = "content"
              THEN Returns(r, stats,
                     ParallelResult(r, steps[r], OrElse(reply.text, FailedToSynthesizeText)), t)
              ELSE Throws(r, stats, GeneratorError(reply), t - startTime[r],
                          Len(request[r].agents))
  /\ UNCHANGED <<request, startTime, selectedAgents, steps, currentInput,
                 results, taskBreakdown, subtasks>>

\* the reply to the synthesis call arrives (lines 1072, 841-849)
ParallelSynthesis(r, reply, latency) ==
  /\ pc[r] = "parallelSynthesis"
  /\ LET t == now + latency
     IN  /\ now' = t
         /\ calls' = [calls EXCEPT ![r] = Settle(@, Len(@), reply)]
         /\ IF reply.kind = "content"
              THEN Returns(r, stats,
                     ParallelResult(r, steps[r], OrElse(reply.text, FailedToSynthesizeText)), t)
              ELSE Throws(r, stats, GeneratorError(reply), t - startTime[r],
                          Len(request[r].agents))
  /\ UNCHANGED <<agents, request, startTime, selectedAgents, steps, currentInput,
                 results, taskBreakdown, subtasks>>

(***************************************************************************)
(* hierarchicalCollaboration (lines 852-949), synthesizeHierarchicalResults*)
(* (lines 1075-1108)                                                       *)
(***************************************************************************)
\* the slice stops one subtask short of the number of workers
dispatchedSubtasksShort(parsed, workers) ==
  IF Len(workers) = 0 THEN <<>> ELSE slice0(parsed, Len(workers) - 1)

\* line 882: subtasks.slice(0, workers.length)
dispatchedSubtasks(parsed, workers) == slice0(parsed, Len(workers))

\* lines 1080-1105: the leader's synthesis call
hierarchicalSynthesisCall(originalTask, breakdown, workerResults) ==
  [model |-> "gpt-4",
   system |-> "You are a project leader synthesizing team results into a final deliverable.",
   user |-> [template |-> "hierarchicalSynthesis", task |-> originalTask,
             breakdown |-> breakdown,
             results |-> [k \in 1..Len(workerResults) |->
                            [name |-> workerResults[k].agent.name,
                             output |-> workerResults[k].output]]],
   max_tokens |-> 2000, temperature |-> <<3, 10>>, reply |-> NoReply]

\* the reply to the leader's decomposition call arrives (lines 865-911)
HierarchicalLeader(r, reply, latency) ==
  /\ pc[r] = "hierarchical"
  /\ LET t == now + latency
         leader == selectedAgents[r][1]
         workers == Tail(selectedAgents[r])
         breakdown == reply.text
         parsed == parseSubtasks(breakdown)
         dispatched == dispatchedSubtasks(parsed, workers)
         m == Len(dispatched)
         first == StepOf(1, leader, request[r].task, reply)
         workerCalls == [k \in 1..m |->
                           executeAgentTask(workers[k],
                             buildWorkerPrompt(workers[k], dispatched[k], request[r].task))]
     IN  /\ now' = t
         /\ IF reply.kind # "content"
              THEN /\ calls' = [calls EXCEPT ![r] = Settle(@, 1, reply)]
                   /\ Throws(r, stats, GeneratorError(reply), t - startTime[r],
                             Len(request[r].agents))
                   /\ UNCHANGED <<steps, results, taskBreakdown, subtasks>>
              ELSE /\ taskBreakdown' = [taskBreakdown EXCEPT ![r] = breakdown]
                   /\ subtasks' = [subtasks EXCEPT ![r] = parsed]
                   /\ steps' = [steps EXCEPT ![r] = <<first>>]
                   /\ results' = [results EXCEPT ![r] = [k \in 1..m |-> Pending]]
                   /\ calls' = [calls EXCEPT ![r] =
                        IF m = 0
                          THEN Append(Settle(@, 1, reply),
                                 hierarchicalSynthesisCall(request[r].task, breakdown, <<>>))
                          ELSE Settle(@, 1, reply) \o workerCalls]
                   /\ Suspends(r, stats, IF m = 0 THEN "hierarchicalSynthesis" ELSE "workers")
  /\ UNCHANGED <<agents, request, startTime, selectedAgents, currentInput>>

\* the reply to the call of worker index arrives; the last worker to settle
\* resumes hierarchicalCollaboration after Promise.all (lines 913-921)
HierarchicalWorker(r, index, reply, latency) ==
  /\ pc[r] = "workers"
  /\ index \in 1..Len(results[r])
  /\ calls[r][index + 1].reply = NoReply
  /\ LET t == now + latency
         workers == Tail(selectedAgents[r])
         step == StepOf(index + 1, workers[index], subtasks[r][index], reply)
         settled == [results[r] EXCEPT
                       ![promiseAllPosition(index, SettledCount(results[r]))] = step]
         all == AllSettled(settled)
         workerResults == settled
     IN  /\ now' = t
         /\ results' = [results EXCEPT ![r] = settled]
         /\ steps' = [steps EXCEPT ![r] = IF all THEN pushAll(@, workerResults) ELSE @]
         /\ calls' = [calls EXCEPT ![r] =
              IF all
                THEN Append(Settle(@, index + 1, reply),
                       hierarchicalSynthesisCall(request[r].task, taskBreakdown[r],
                                                 workerResults))
                ELSE Settle(@, index + 1, reply)]
         /\ Suspends(r, stats, IF all THEN "hierarchicalSynthesis" ELSE "workers")
  /\ UNCHANGED <<agents, request, startTime, selectedAgents, currentInput, taskBreakdown, subtasks>>

\* a failed synthesis call is absorbed: the run returns a result whose final
\* step carries the fallback text
HierarchicalSynthesisFallingBack(r, reply, latency) ==
  /\ pc[r] = "hierarchicalSynthesis"
  /\ LET t == now + latency
         finalSynthesis == IF reply.kind = "content"
                             THEN OrElse(reply.text, FailedFinalSynthesisText)
                             ELSE FailedFinalSynthesisText
         last == [step_number |-> Len(steps[r]) + 1, agent |-> selectedAgents[r][1],
                  input |-> SynthesisInputText, output |-> finalSynthesis,
                  success |-> reply.kind = "content"]
         pushed == Append(steps[r], last)
     IN  /\ now' = t
         /\ calls' = [calls EXCEPT ![r] = Settle(@, Len(@), reply)]
         /\ steps' = [steps EXCEPT ![r] = pushed]
         /\ Returns(r, stats,
              [task |-> request[r].task, type |-> "hierarchical",
               agents_used |-> selectedAgents[r], steps |-> pushed,
               final_result |-> finalSynthesis, execution_time |-> 0,
               success |-> every(results[r]) /\ reply.kind = "content"], t)
  /\ UNCHANGED <<agents, request, startTime, selectedAgents, currentInput, results,
                 taskBreakdown, subtasks>>

\* the reply to the leader's synthesis call arrives (lines 1107, 923-943)
HierarchicalSynthesis(r, reply, latency) ==
  /\ pc[r] = "hierarchicalSynthesis"
  /\ LET t == now + latency
         finalSynthesis == OrElse(reply.text, FailedFinalSynthesisText)
         workerResults == results[r]
         last == [step_number |-> Len(steps[r]) + 1, agent |-> selectedAgents[r][1],
                  input |-> SynthesisInputText, output |-> finalSynthesis,
                  success |-> TRUE]
         pushed == Append(steps[r], last)
     IN  /\ now' = t
         /\ calls' = [calls EXCEPT ![r] = Settle(@, Len(@), reply)]
         /\ IF reply.kind = "content"
              THEN /\ steps' = [steps EXCEPT ![r] = pushed]
                   /\ Returns(r, stats,
                        [task |-> request[r].task, type |-> "hierarchical",
                         agents_used |-> selectedAgents[r], steps |-> pushed,
                         final_result |-> finalSynthesis, execution_time |-> 0,
                         success |-> every(workerResults)], t)
              ELSE /\ UNCHANGED steps
                   /\ Throws(r, stats, GeneratorError(reply), t - startTime[r],
                             Len(request[r].agents))
  /\ UNCHANGED <<agents, request, startTime, selectedAgents, currentInput, results,
                 taskBreakdown, subtasks>>

(***************************************************************************)
(* ReasoningEngine (src/src/frameworks/reasoning/reasoning-engine.ts).     *)
(***************************************************************************)
\* reactMethodology: the loop's maxIterations
maxIterations == 5
\* treeOfThoughts: the number of thought branches
branches == 3
\* longest numbered list a chain-of-thought reply of the model carries
MaxSteps == 5

\* executeAction (lines 429-442): the keywords in the order in which they are
\* looked for, each with the observation it yields
actionObservations ==
  << [keyword |-> <<"S", "E", "A", "R", "C", "H">>,
      observation |->
        <<"S", "e", "a", "r", "c", "h", " ", "r", "e", "s", "u", "l", "t", "s", ":", " ", "[",
          "S", "i", "m", "u", "l", "a", "t", "e", "d", " ", "s", "e", "a", "r", "c", "h", " ",
          "r", "e", "s", "u", "l", "t", "s", " ", "r", "e", "l", "a", "t", "e", "d", " ", "t",
          "o", " ", "t", "h", "e", " ", "q", "u", "e", "r", "y", "]">>],
     [keyword |-> <<"C", "A", "L", "C", "U", "L", "A", "T", "E">>,
      observation |->
        <<"C", "a", "l", "c", "u", "l", "a", "t", "i", "o", "n", " ", "c", "o", "m", "p", "l",
          "e", "t", "e", ":", " ", "[", "S", "i", "m", "u", "l", "a", "t", "e", "d", " ", "c",
          "a", "l", "c", "u", "l", "a", "t", "i", "o", "n", " ", "r", "e", "s", "u", "l", "t",
          "]">>],
     [keyword |-> <<"A", "N", "A", "L", "Y", "Z", "E">>,
      observation |->
        <<"A", "n", "a", "l", "y", "s", "i", "s", ":", " ", "[", "S", "i", "m", "u", "l", "a",
          "t", "e", "d", " ", "a", "n", "a", "l", "y", "s", "i", "s", " ", "r", "e", "s", "u",
          "l", "t", "s", "]">>],
     [keyword |-> <<"A", "N", "S", "W", "E", "R">>,
      observation |->
        <<"F", "i", "n", "a", "l", " ", "a", "n", "s", "w", "e", "r", " ", "b", "a", "s", "e",
          "d", " ", "o", "n", " ", "p", "r", "e", "v", "i", "o", "u", "s", " ", "r", "e", "a",
          "s", "o", "n", "i", "n", "g", " ", "s", "t", "e", "p", "s", ".">>] >>

DefaultObservation ==
  <<"A", "c", "t", "i", "o", "n", " ", "e", "x", "e", "c", "u", "t", "e", "d", " ", "s", "u",
    "c", "c", "e", "s", "s", "f", "u", "l", "l", "y", ".">>

AnswerKeyword == actionObservations[4].keyword
AnswerObservation == actionObservations[4].observation

NoAnswerText ==
  <<"C", "o", "u", "l", "d", " ", "n", "o", "t", " ", "d", "e", "t", "e", "r", "m", "i", "n",
    "e", " ", "a", "n", "s", "w", "e", "r">>

\* executeAction (lines 429-442): the first keyword found decides
executeAction(action) ==
  LET upper == toUpperCase(action)
      found == {k \in 1..Len(actionObservations) : includes(upper, actionObservations[k].keyword)}
  IN  IF found = {} THEN DefaultObservation
      ELSE actionObservations[CHOOSE k \in found : \A l \in found : k <= l].observation

\* line 221: action.toUpperCase().includes('ANSWER')
isFinalAnswer(action) == includes(toUpperCase(action), AnswerKeyword)

Digits == {"0", "1", "2", "3", "4", "5", "6", "7", "8", "9"}

\* line 503: line.match(/^\d+\.|step \d+/i)
IsStepLine(line) ==
  \/ \E k \in 1..(Len(line) - 1) :
       /\ \A i \in 1..k : line[i] \in Digits
       /\ line[k + 1] = "."
  \/ \E i \in 1..(Len(line) - 5) :
       /\ toUpperCase(SubSeq(line, i, i + 3)) = <<"S", "T", "E", "P">>
       /\ line[i + 4] = " "
       /\ line[i + 5] \in Digits

\* parseChainOfThoughtReasoning (lines 497-521); the steps' timestamps are
\* left out
parseChainOfThoughtReasoning(response) ==
  LET lines == SelectSeq(split(response, <<"\n">>), IsStepLine)
  IN  IF Len(lines) > 0
        THEN [k \in 1..Len(lines) |->
                [step_number |-> k, type |-> "chain-of-thought", thought |-> lines[k],
                 confidence |-> Rat(8, 10)]]
        ELSE <<[step_number |-> 1, type |-> "chain-of-thought", thought |-> response,
                confidence |-> Rat(7, 10)]>>

\* arithmetic on rationals
RatAdd(a, b) == Rat(a[1] * b[2] + b[1] * a[2], a[2] * b[2])
RatMin(a, b) == IF b[1] * a[2] < a[1] * b[2] THEN b ELSE a

RECURSIVE SumConfidence(_)
SumConfidence(reasoning) ==
  IF reasoning = <<>> THEN Rat(0, 1)
  ELSE RatAdd(SumConfidence(SubSeq(reasoning, 1, Len(reasoning) - 1)),
              reasoning[Len(reasoning)].confidence)

\* the mean of the step confidences, without the bonus for the number of steps
calculateConfidenceAverageOnly(reasoning) ==
  IF Len(reasoning) = 0 THEN Rat(1, 2)
  ELSE LET sum == SumConfidence(reasoning)
           avgConfidence == Rat(sum[1], sum[2] * Len(reasoning))
       IN  RatMin(avgConfidence, Rat(1, 1))

\* calculateConfidence (lines 542-549)
calculateConfidence(reasoning) ==
  IF Len(reasoning) = 0 THEN Rat(1, 2)
  ELSE LET sum == SumConfidence(reasoning)
           avgConfidence == Rat(sum[1], sum[2] * Len(reasoning))
           complexityBonus == RatMin(Rat(Len(reasoning) * 5, 100), Rat(2, 10))
       IN  RatMin(RatAdd(avgConfidence, complexityBonus), Rat(1, 1))

\* extractFinalAnswer (lines 523-540): the lead-in phrases of its two patterns
ColonLeadIns ==
  { <<"a", "n", "s", "w", "e", "r", ":">>,
    <<"c", "o", "n", "c", "l", "u", "s", "i", "o", "n", ":">>,
    <<"t", "h", "e", "r", "e", "f", "o", "r", "e", ":">>,
    <<"f", "i", "n", "a", "l", "l", "y", ":">>,
    <<"r", "e", "s", "u", "l", "t", ":">> }
PhraseLeadIns ==
  { <<"t", "h", "e", " ", "a", "n", "s", "w", "e", "r", " ", "i", "s">>,
    <<"t", "h", "e", " ", "r", "e", "s", "u", "l", "t", " ", "i", "s">>,
    <<"w", "e", " ", "c", "o", "n", "c", "l", "u", "d", "e", " ", "t", "h", "a", "t">> }

\* response.match(/(?:lead-ins)\s*(.+?)(?:\n|$)/i): the text captured by the
\* leftmost match, or no match. '.' matches no line terminator; \s* takes
\* all the whitespace it can and gives it back until the rest matches.
matchLeadIn(text, leads) ==
  LET LineTerminators == {"\n", "\r"}
      \* the last position of the run of characters '.' matches from s on
      RunEnd(s) ==
        LET stops == {i \in s..Len(text) : text[i] \in LineTerminators}
        IN  IF stops = {} THEN Len(text)
            ELSE (CHOOSE i \in stops : \A j \in stops : i <= j) - 1
      \* (.+?)(?:\n|$) matches from position s
      CapturesFrom(s) ==
        /\ s <= Len(text)
        /\ text[s] \notin LineTerminators
        /\ RunEnd(s) = Len(text) \/ text[RunEnd(s) + 1] = "\n"
      \* the positions after the whitespace run that starts at q, and before
      WhitespaceEnds(q) ==
        {s \in q..(Len(text) + 1) : \A i \in q..(s - 1) : text[i] \in Whitespace}
      CaptureStarts(q) == {s \in WhitespaceEnds(q) : CapturesFrom(s)}
      LeadInAt(at, lead) ==
        /\ at + Len(lead) - 1 <= Len(text)
        /\ toUpperCase(SubSeq(text, at, at + Len(lead) - 1)) = toUpperCase(lead)
        /\ CaptureStarts(at + Len(lead)) # {}
      hits == {at \in 1..Len(text) : \E lead \in leads : LeadInAt(at, lead)}
  IN  IF hits = {} THEN [matched |-> FALSE]
      ELSE LET at == CHOOSE i \in hits : \A j \in hits : i <= j
               lead == CHOOSE l \in leads : LeadInAt(at, l)
               starts == CaptureStarts(at + Len(lead))
               s == CHOOSE i \in starts : \A j \in starts : j <= i
           IN  [matched |-> TRUE, capture |-> SubSeq(text, s, RunEnd(s))]

\* a sentence of the fallback counts when its trimmed length exceeds this
SentenceMinLength == 10

UndefinedText == <<"u", "n", "d", "e", "f", "i", "n", "e", "d">>

\* extractFinalAnswer (lines 523-540): undefined + '.' is the text 'undefined.',
\* so that the final '|| response' never applies
extractFinalAnswer(response) ==
  LET first == matchLeadIn(response, ColonLeadIns)
      second == matchLeadIn(response, PhraseLeadIns)
      sentences == SelectSeq(split(response, <<".">>),
                             LAMBDA s : Len(trim(s)) > SentenceMinLength)
  IN  IF first.matched THEN trim(first.capture)
      ELSE IF second.matched THEN trim(second.capture)
      ELSE IF Len(sentences) = 0 THEN UndefinedText \o <<".">>
      ELSE trim(sentences[Len(sentences)]) \o <<".">>

\* lines of white space are kept as thoughts
parseThoughtBranchesKeepingBlank(response) ==
  slice0(SelectSeq(split(response, <<"\n">>), LAMBDA line : Len(line) > 0), branches)

\* line 462: the first non-blank lines of the reply, at most `branches`
parseThoughtBranches(response) ==
  slice0(SelectSeq(split(response, <<"\n">>), LAMBDA line : Len(trim(line)) > 0), branches)

(***************************************************************************)
(* ReasoningEngine: requests, generator replies, prompts.                  *)
(***************************************************************************)
\* "debate" stands for any string outside the four known types
ReasoningTypes == {"chain-of-thought", "react", "tree-of-thoughts", "self-reflection"}
ReasoningRequests == [input : {TheTask}, type : ReasoningTypes \cup {"debate"}]

\* a chat completion: choices[0].message.content and usage.total_tokens
Completion(text, tokens) == [kind |-> "content", text |-> text, tokens |-> tokens]
Rejection(message) == [kind |-> "error", text |-> message, tokens |-> 0]

\* the text "1.\n2.\n ... n." (n < 10)
RECURSIVE NumberedList(_)
NumberedList(n) ==
  IF n = 0 THEN <<>>
  ELSE IF n = 1 THEN <<"1", ".">>
  ELSE NumberedList(n - 1) \o <<"\n", <<"1", "2", "3", "4", "5", "6", "7", "8", "9">>[n], ".">>

\* replies to the call of chainOfThought
ChainOfThoughtReplies ==
  {Completion(NumberedList(n), 2) : n \in 0..MaxSteps}
    \cup { Completion(<<"x">>, 2),
           Completion(<<"S", "t", "e", "p", " ", "1", "\n", "x", "\n", "2", ".">>, 2),
           Completion(<<"1", ".", " ", "a", "\n", "A", "n", "s", "w", "e", "r", ":", " ", "b">>, 2),
           Completion(<<"t", "h", "e", " ", "r", "e", "s", "u", "l", "t", " ", "i", "s", "\n",
                        "c", "\n">>, 2),
           Completion(<<"1", "2", " ", "i", "s", " ", "t", "h", "e", " ", "s", "u", "m", ".",
                        "x">>, 2),
           Completion(<<"1", ".">>, 0),
           Rejection(<<"e">>) }

\* replies to the action call of reactMethodology
ActionReplies ==
  { Completion(<<>>, 2),
    Completion(<<"s", "e", "a", "r", "c", "h">>, 2),
    Completion(<<"a", "n", "s", "w", "e", "r">>, 2),
    Completion(<<"A", "N", "S", "W", "E", "R", " ", "S", "E", "A", "R", "C", "H">>, 2),
    Rejection(<<"e">>) }

\* replies to the call of generateThoughtBranches
BranchReplies ==
  { Completion(<<>>, 2),
    Completion(<<" ", "\n", "\n">>, 2),
    Completion(<<"a">>, 2),
    Completion(<<"a", "\n", "\n", "b">>, 2),
    Completion(<<"a", "\n", " ", "\n", "b", "\n", "c", "\n", "d">>, 2),
    Rejection(<<"e">>) }

\* replies to the calls whose text is used as it is
PlainReplies == {Completion(<<"a">>, 2), Completion(<<>>, 0), Rejection(<<"e">>)}

\* the chat completion the engine requests
completionCall(system, user, maxTokens, temperature) ==
  [model |-> "gpt-4", system |-> system, user |-> user,
   max_tokens |-> maxTokens, temperature |-> temperature, reply |-> NoReply]

\* buildChainOfThoughtPrompt (lines 395-405), for a request without context
buildChainOfThoughtPrompt(input) == [template |-> "chainOfThought", input |-> input]

\* buildReactThoughtPrompt (lines 407-423)
buildReactThoughtPrompt(input, previousReasoning) ==
  [template |-> "reactThought", input |-> input,
   previous |-> [k \in 1..Len(previousReasoning) |->
                   [step_number |-> previousReasoning[k].step_number,
                    thought |-> previousReasoning[k].thought,
                    action |-> previousReasoning[k].action,
                    observation |-> previousReasoning[k].observation]]]

\* buildReactActionPrompt (lines 425-427)
buildReactActionPrompt(thought, input) ==
  [template |-> "reactAction", thought |-> thought, input |-> input]

\* line 226: the variable parts of the input of the next iteration
nextReactInput(input, thought, action, observation) ==
  [input EXCEPT !.previous =
     Append(@, [thought |-> thought, action |-> action, observation |-> observation])]

\* the calls of reactMethodology (lines 166-180, 187-201)
reactThoughtCall(input, reasoning) ==
  completionCall("ReAct: generate a THOUGHT", buildReactThoughtPrompt(input, reasoning),
                 300, <<7, 10>>)
reactActionCall(thought, input) ==
  completionCall("ReAct: decide what ACTION to take", buildReactActionPrompt(thought, input),
                 200, <<3, 10>>)

(***************************************************************************)
(* ReasoningEngine.process (lines 74-123) and updateStats (lines 585-596). *)
(***************************************************************************)
\* the failed request is not averaged in
updateReasoningStatsOnSuccessOnly(st, processingTime, tokensUsed, success) ==
  IF ~success THEN st
  ELSE LET total == st.total_processes
       IN  [st EXCEPT
              !.success_rate = RunningMean(st.success_rate, total, 1),
              !.avg_processing_time = RunningMean(st.avg_processing_time, total, processingTime),
              !.avg_tokens_used = RunningMean(st.avg_tokens_used, total, tokensUsed)]

\* updateStats (lines 585-596)
updateReasoningStats(st, processingTime, tokensUsed, success) ==
  LET total == st.total_processes
  IN  [st EXCEPT
         !.success_rate = RunningMean(st.success_rate, total, IF success THEN 1 ELSE 0),
         !.avg_processing_time = RunningMean(st.avg_processing_time, total, processingTime),
         !.avg_tokens_used = RunningMean(st.avg_tokens_used, total, tokensUsed)]

\* the invocation is suspended at an await, having issued a call
Awaits(r, e, at, call) ==
  /\ engine' = [engine EXCEPT ![r] = [e EXCEPT !.pc = at, !.calls = Append(@, call)]]
  /\ UNCHANGED engineStats

\* lines 103-116: the methodology returned res at time t
ProcessReturns(r, e, res, t) ==
  LET processingTime == t - e.startTime
  IN  /\ engine' = [engine EXCEPT ![r] =
           [e EXCEPT !.pc = "returned",
                     !.result = [res EXCEPT !.processing_time = processingTime]]]
      /\ engineStats' = updateReasoningStats(engineStats, processingTime, res.tokens_used, TRUE)

\* the failure is swallowed: process returns what the methodology had produced
ProcessReturnsPartial(r, e, st, err, t) ==
  /\ engine' = [engine EXCEPT ![r] =
       [e EXCEPT !.pc = "returned",
                 !.result = [response |-> <<>>, reasoning |-> e.reasoning,
                             confidence |-> Rat(1, 2), processing_time |-> t - e.startTime,
                             tokens_used |-> e.totalTokens]]]
  /\ engineStats' = updateReasoningStats(st, t - e.startTime, 0, FALSE)

\* lines 118-122: the catch block, which throws the error again
ProcessThrows(r, e, st, err, t) ==
  /\ engine' = [engine EXCEPT ![r] = [e EXCEPT !.pc = "thrown", !.error = err]]
  /\ engineStats' = updateReasoningStats(st, t - e.startTime, 0, FALSE)

\* the reply to the call the request awaits
Answered(e, reply) == [e EXCEPT !.calls = Settle(@, Len(@), reply)]

\* requests are numbered in the order in which they arrive
NextProcess(r) == \A q \in 1..(r - 1) : engine[q].pc # "idle"

\* process up to its first await (lines 74-101, and the first turn of the
\* chosen methodology)
Process(r, req) ==
  /\ engine[r].pc = "idle"
  /\ NextProcess(r)
  /\ LET counted == [engineStats EXCEPT !.total_processes = @ + 1]
         e == [engine[r] EXCEPT !.request = req, !.startTime = now,
                 !.currentInput = [text |-> req.input, previous |-> <<>>]]
     IN  IF req.type \notin ReasoningTypes
           THEN ProcessThrows(r, e, counted,
                              [kind |-> "UnknownReasoningType", type |-> req.type], now)
           ELSE /\ engineStats' = counted
                /\ engine' = [engine EXCEPT ![r] =
                     [e EXCEPT
                        !.pc = req.type,
                        !.calls =
                          << CASE req.type = "chain-of-thought" ->
                                    completionCall("advanced reasoning system",
                                      buildChainOfThoughtPrompt(req.input), 2000, <<7, 10>>)
                               [] req.type = "react" ->
                                    reactThoughtCall(e.currentInput, <<>>)
                               [] req.type = "tree-of-thoughts" ->
                                    completionCall("generate approaches",
                                      [template |-> "input", input |-> req.input,
                                       branches |-> branches], 600, <<8, 10>>)
                               [] req.type = "self-reflection" ->
                                    completionCall("initial response",
                                      [template |-> "input", input |-> req.input],
                                      400, <<7, 10>>) >>]]
  /\ UNCHANGED now

(***************************************************************************)
(* chainOfThought (lines 125-154)                                          *)
(***************************************************************************)
ChainOfThought(r, reply, latency) ==
  /\ engine[r].pc = "chain-of-thought"
  /\ LET t == now + latency
         e == Answered(engine[r], reply)
         response == reply.text
         reasoning == parseChainOfThoughtReasoning(response)
     IN  /\ now' = t
         /\ IF reply.kind # "content"
              THEN ProcessThrows(r, e, engineStats, GeneratorError(reply), t)
              ELSE ProcessReturns(r, [e EXCEPT !.reasoning = reasoning],
                     [response |-> extractFinalAnswer(response),
                      reasoning |-> reasoning,
                      confidence |-> calculateConfidence(reasoning),
                      processing_time |-> 0,
                      tokens_used |-> reply.tokens], t)

(***************************************************************************)
(* reactMethodology (lines 156-238)                                        *)
(***************************************************************************)
\* the loop runs its body again whatever the action was
reactLoopContinuesAfterAnswer(action, iteration) == iteration < maxIterations

\* lines 163, 221-223: the loop runs its body again
reactLoopContinues(action, iteration) ==
  ~isFinalAnswer(action) /\ iteration < maxIterations

\* the reply to the thought call arrives (lines 182-201)
ReactThought(r, reply, latency) ==
  /\ engine[r].pc = "react"
  /\ LET t == now + latency
         e == Answered(engine[r], reply)
         thought == reply.text
     IN  /\ now' = t
         /\ IF reply.kind # "content"
              THEN ProcessThrows(r, e, engineStats, GeneratorError(reply), t)
              ELSE Awaits(r, [e EXCEPT !.thought = thought,
                                       !.totalTokens = @ + reply.tokens],
                          "reactAction", reactActionCall(thought, e.currentInput))

\* the reply to the action call arrives (lines 203-237)
ReactAction(r, reply, latency) ==
  /\ engine[r].pc = "reactAction"
  /\ LET t == now + latency
         e == Answered(engine[r], reply)
         action == reply.text
         iteration == Len(e.reasoning) + 1
         observation == executeAction(action)
         step == [step_number |-> iteration, type |-> "react", thought |-> e.thought,
                  action |-> action, observation |-> observation,
                  confidence |-> Rat(8, 10)]
         reasoning == Append(e.reasoning, step)
         totalTokens == e.totalTokens + reply.tokens
         input == nextReactInput(e.currentInput, e.thought, action, observation)
         pushed == [e EXCEPT !.reasoning = reasoning, !.totalTokens = totalTokens]
     IN  /\ now' = t
         /\ IF reply.kind # "content"
              THEN ProcessThrows(r, e, engineStats, GeneratorError(reply), t)
            ELSE IF reactLoopContinues(action, iteration)
              THEN Awaits(r, [pushed EXCEPT !.currentInput = input], "react",
                          reactThoughtCall(input, reasoning))
            ELSE ProcessReturns(r, pushed,
                   [response |-> OrElse(reasoning[Len(reasoning)].observation, NoAnswerText),
                    reasoning |-> reasoning,
                    confidence |-> calculateConfidence(reasoning),
                    processing_time |-> 0,
                    tokens_used |-> totalTokens], t)

(***************************************************************************)
(* treeOfThoughts (lines 240-295), generateThoughtBranches (444-468),      *)
(* evaluateThoughts (470-495)                                              *)
(***************************************************************************)
\* the reply to the call of generateThoughtBranches arrives
GenerateThoughtBranches(r, reply, latency) ==
  /\ engine[r].pc = "tree-of-thoughts"
  /\ LET t == now + latency
         e == Answered(engine[r], reply)
         thoughts == parseThoughtBranches(reply.text)
     IN  /\ now' = t
         /\ IF reply.kind # "content"
              THEN ProcessThrows(r, e, engineStats, GeneratorError(reply), t)
              ELSE Awaits(r, [e EXCEPT !.thoughts = thoughts, !.totalTokens = @ + reply.tokens],
                          "evaluateThoughts",
                          completionCall("evaluate and rank the approaches",
                            [template |-> "evaluateThoughts", input |-> e.request.input,
                             thoughts |-> thoughts], 400, <<3, 10>>))

\* the reply to the call of evaluateThoughts arrives: the thoughts keep their
\* order, and the first of them conditions the final call (lines 256-272)
EvaluateThoughts(r, reply, latency) ==
  /\ engine[r].pc = "evaluateThoughts"
  /\ LET t == now + latency
         e == Answered(engine[r], reply)
         bestPath == IF Len(e.thoughts) = 0 THEN UndefinedText ELSE e.thoughts[1]
     IN  /\ now' = t
         /\ IF reply.kind # "content"
              THEN ProcessThrows(r, e, engineStats, GeneratorError(reply), t)
              ELSE Awaits(r, [e EXCEPT !.totalTokens = @ + reply.tokens],
                          "finalAnswer",
                          completionCall("comprehensive final answer",
                            [template |-> "bestPath", input |-> e.request.input,
                             bestPath |-> bestPath], 500, <<5, 10>>))

\* the reply to the final call arrives (lines 274-294)
TreeOfThoughts(r, reply, latency) ==
  /\ engine[r].pc = "finalAnswer"
  /\ LET t == now + latency
         e == Answered(engine[r], reply)
         reasoning == [k \in 1..Len(e.thoughts) |->
                         [step_number |-> k, type |-> "tree-of-thoughts",
                          thought |-> e.thoughts[k], confidence |-> Rat(7, 10)]]
         totalTokens == e.totalTokens + reply.tokens
     IN  /\ now' = t
         /\ IF reply.kind # "content"
              THEN ProcessThrows(r, e, engineStats, GeneratorError(reply), t)
              ELSE ProcessReturns(r, [e EXCEPT !.reasoning = reasoning,
                                               !.totalTokens = totalTokens],
                     [response |-> reply.text,
                      reasoning |-> reasoning,
                      confidence |-> Rat(85, 100),
                      processing_time |-> 0,
                      tokens_used |-> totalTokens], t)

(***************************************************************************)
(* selfReflection (lines 297-390)                                          *)
(***************************************************************************)
\* the reply to the initial call arrives (lines 317-343)
InitialResponse(r, reply, latency) ==
  /\ engine[r].pc = "self-reflection"
  /\ LET t == now + latency
         e == Answered(engine[r], reply)
         initialResponse == reply.text
     IN  /\ now' = t
         /\ IF reply.kind # "content"
              THEN ProcessThrows(r, e, engineStats, GeneratorError(reply), t)
              ELSE Awaits(r, [e EXCEPT
                                !.initialResponse = initialResponse,
                                !.totalTokens = @ + reply.tokens,
                                !.reasoning = Append(@, [step_number |-> 1, type |-> "initial-response",
                                                            thought |-> initialResponse, confidence |-> Rat(6, 10)])],
                          "reflection",
                          completionCall("critically analyze the previous response",
                            [template |-> "reflection", input |-> e.request.input,
                             initialResponse |-> initialResponse], 400, <<8, 10>>))

\* the reply to the critique call arrives (lines 345-371)
Reflection(r, reply, latency) ==
  /\ engine[r].pc = "reflection"
  /\ LET t == now + latency
         e == Answered(engine[r], reply)
         reflection == reply.text
     IN  /\ now' = t
         /\ IF reply.kind # "content"
              THEN ProcessThrows(r, e, engineStats, GeneratorError(reply), t)
              ELSE Awaits(r, [e EXCEPT
                                !.reflection = reflection,
                                !.totalTokens = @ + reply.tokens,
                                !.reasoning = Append(@, [step_number |-> 2, type |-> "self-reflection",
                                                            thought |-> reflection, confidence |-> Rat(7, 10)])],
                          "improvedResponse",
                          completionCall("improved and more accurate response",
                            [template |-> "improved", input |-> e.request.input,
                             initialResponse |-> e.initialResponse,
                             reflection |-> reflection], 500, <<6, 10>>))

\* the reply to the improving call arrives (lines 373-389)
ImprovedResponse(r, reply, latency) ==
  /\ engine[r].pc = "improvedResponse"
  /\ LET t == now + latency
         e == Answered(engine[r], reply)
         improvedResponse == reply.text
         reasoning == Append(e.reasoning, [step_number |-> 3, type |-> "improved-response",
                                                            thought |-> improvedResponse, confidence |-> Rat(9, 10)])
         totalTokens == e.totalTokens + reply.tokens
     IN  /\ now' = t
         /\ IF reply.kind # "content"
              THEN ProcessThrows(r, e, engineStats, GeneratorError(reply), t)
              ELSE ProcessReturns(r, [e EXCEPT !.reasoning = reasoning,
                                               !.totalTokens = totalTokens],
                     [response |-> improvedResponse,
                      reasoning |-> reasoning,
                      confidence |-> Rat(9, 10),
                      processing_time |-> 0,
                      tokens_used |-> totalTokens], t)

(***************************************************************************)
(* MemorySystem.storeContext (memory-system.ts, lines 130-189) and         *)
(* ConstitutionalAI.calculateValidationResult (constitutional-ai.ts,       *)
(* lines 443-487).                                                         *)
(***************************************************************************)
\* how the Redis commands of one storeContext end: all succeed, hSet is
\* rejected, or a command on the indexes is rejected after hSet succeeded
StoreOutcomes == {"stored", "hSetRejected", "indexRejected"}

\* the memory after storeContext; storeContext returns if the outcome is
\* "stored" and throws the error of the rejected command otherwise
storeContext(mem, record, outcome) ==
  CASE outcome = "stored" ->
         [mem EXCEPT !.records = Append(@, record), !.total_contexts = @ + 1]
    [] outcome = "indexRejected" -> [mem EXCEPT !.records = Append(@, record)]
    [] outcome = "hSetRejected" -> mem

\* the severities of the violations detectViolations may have collected
ViolationLists ==
  {<<>>, <<"low">>, <<"medium">>, <<"high">>, <<"critical">>, <<"high", "medium">>}

\* calculateOverallSeverity (lines 473-487)
calculateOverallSeverity(violations) ==
  LET level(severity) ==
        CASE severity = "low" -> 1 [] severity = "medium" -> 2
          [] severity = "high" -> 3 [] severity = "critical" -> 4
  IN  IF Len(violations) = 0 THEN "low"
      ELSE violations[CHOOSE i \in 1..Len(violations) :
                        \A j \in 1..Len(violations) :
                          level(violations[j]) <= level(violations[i])]

\* calculateValidationResult (lines 443-471): the verdict and its severity
calculateValidationResult(violations) ==
  [is_valid |-> (Len(violations) = 0),
   severity |-> calculateOverallSeverity(violations)]

(***************************************************************************)
(* AGIServer routes (unnamed/part_004, lines 118-166) over                 *)
(* AGIFramework.processMessage and orchestrateAgents (agi-framework.ts,    *)
(* lines 109-207).  A turn of the engine or of the orchestrator that       *)
(* settles its promise runs the framework's continuation in the same step. *)
(***************************************************************************)
\* bodies of POST /chat/complete; the empty message is the missing one
ChatBodies ==
  [message : {<<>>, TheTask}, reasoning_type : ReasoningTypes \cup {"debate"}]

\* bodies of POST /agents/collaborate; agents may be something that is not
\* an array
CollaborateBodies ==
  [task : {<<>>, TheTask},
   agents : {None} \cup {[kind |-> "array", ids |-> ids] :
                           ids \in {<<>>, <<"ghost">>, <<"analyst">>, <<"analyst", "creative">>}},
   collaboration_type : KnownTypes \cup {"debate"}]

\* res.status(status).json(body), the handler being in state h
Respond(r, h, status, body) ==
  http' = [http EXCEPT ![r] =
             [h EXCEPT !.pc = "responded", !.response = [status |-> status, body |-> body]]]

\* the handler, in state h, is suspended at an await
HandlerAwaits(r, h, at) == http' = [http EXCEPT ![r] = [h EXCEPT !.pc = at]]

\* AGIFramework.initialize (lines 85-107) with MemorySystem.initialize
\* (memory-system.ts, lines 55-99): Redis is connected, or the in-memory
\* store is used instead
FrameworkInitialize(connected) ==
  /\ ~isInitialized
  /\ lifecycle' = "initialized"
  /\ isInitialized' = TRUE
  /\ memory' = [memory EXCEPT !.isConnected = connected]
  /\ Initialize
  /\ UNCHANGED <<http, dropped, reasoningVars>>

\* AGIFramework.initialize when the initialize of a component rejects, as
\* ReasoningEngine.initialize does when the generator cannot be reached
\* (reasoning-engine.ts, lines 59-72): Promise.all rejects and line 99 is not
\* reached; the orchestrator has registered its agents and the memory
\* system has settled on Redis or on the in-memory store all the same
FrameworkInitializeFails(connected) ==
  /\ ~isInitialized
  /\ lifecycle' = "initializeRejected"
  /\ memory' = [memory EXCEPT !.isConnected = connected]
  /\ Initialize
  /\ UNCHANGED <<isInitialized, http, dropped, reasoningVars>>

\* AGIFramework.shutdown up to its await (lines 371-380): the shutdown of
\* each component has run its first turn, the orchestrator's clearing the
\* registry (memory-system.ts, lines 1197-1201)
FrameworkShutdown ==
  /\ lifecycle = "initialized"
  /\ lifecycle' = "shuttingDown"
  /\ agents' = EmptyRegistry
  /\ UNCHANGED <<stats, now, pc, request, startTime, selectedAgents, steps,
                 currentInput, results, taskBreakdown, subtasks, calls, result, error,
                 isInitialized, memory, http, dropped, reasoningVars>>

\* the flag is left standing when the shutdown completes
FrameworkShutdownCompletesKeepingFlag(quit) ==
  /\ lifecycle = "shuttingDown"
  /\ lifecycle' = "shutDown"
  /\ memory' = IF memory.isConnected
                 THEN [memory EXCEPT !.isConnected = ~quit]
                 ELSE [memory EXCEPT !.records = <<>>]
  /\ UNCHANGED <<isInitialized, http, dropped, orchestratorVars, reasoningVars, now>>

\* AGIFramework.shutdown after Promise.all (lines 382-384), with
\* MemorySystem.shutdown (memory-system.ts, lines 484-500): redis.quit()
\* succeeds or its error is swallowed, and the in-memory store is cleared;
\* no component's shutdown rejects
FrameworkShutdownCompletes(quit) ==
  /\ lifecycle = "shuttingDown"
  /\ lifecycle' = "shutDown"
  /\ isInitialized' = FALSE
  /\ memory' = IF memory.isConnected
                 THEN [memory EXCEPT !.isConnected = ~quit]
                 ELSE [memory EXCEPT !.records = <<>>]
  /\ UNCHANGED <<http, dropped, orchestratorVars, reasoningVars, now>>

\* the methods of AGIFramework, processMessage and orchestrateAgents apart,
\* that start with ensureInitialized (lines 210, 243, 265, 305, 342)
GatedMethods ==
  {"queryRAG", "validateContent", "startFineTuning", "getSystemInfo", "getPerformanceMetrics"}

\* the route of one of these methods, called with an acceptable body, up to
\* the method's first await (part_004, lines 106-259): ensureInitialized
\* throws, or the first call on a component is issued
GatedCall(r, method) ==
  /\ http[r].pc = "idle"
  /\ LET h == [http[r] EXCEPT !.route = method]
     IN  IF ~isInitialized
           THEN Respond(r, h, 500, [error |-> "Failed"])
           ELSE HandlerAwaits(r, h, "component")
  /\ UNCHANGED <<lifecycle, isInitialized, memory, dropped, orchestratorVars, reasoningVars, now>>

\* the component calls of the method settle: startFineTuning has stored its
\* job record (lines 290-295) or storeContext has thrown; the calls of the
\* other methods have all resolved or one has rejected
GatedCallSettles(r, outcome) ==
  /\ http[r].pc = "component"
  /\ memory.isConnected \/ outcome = "stored"
  /\ memory' = IF http[r].route = "startFineTuning"
                 THEN storeContext(memory, [type |-> "fine_tuning_job"], outcome)
                 ELSE memory
  /\ IF outcome = "stored"
       THEN Respond(r, http[r], 200, [method |-> http[r].route])
       ELSE Respond(r, http[r], 500, [error |-> "Failed"])
  /\ UNCHANGED <<lifecycle, isInitialized, dropped, orchestratorVars, reasoningVars, now>>

\* POST /chat/complete up to the await of storeContext (part_004, lines
\* 118-140; agi-framework.ts, lines 109-125)
ChatComplete(r, body) ==
  /\ http[r].pc = "idle"
  /\ LET h == [http[r] EXCEPT !.route = "chat", !.body = body]
     IN  IF body.message = <<>>
           THEN Respond(r, h, 400, [error |-> "Message is required"])
         ELSE IF ~isInitialized
           THEN Respond(r, h, 500, [error |-> "Failed to process message"])
         ELSE HandlerAwaits(r, h, "storeUserMessage")
  /\ UNCHANGED <<lifecycle, isInitialized, memory, dropped, orchestratorVars, reasoningVars, now>>

\* agi-framework.ts, lines 127-139, once reasoningEngine.process has run a
\* turn: its result goes to validate, its error is thrown on to the route
ProcessMessageContinues(r) ==
  IF engine'[r].pc = "returned"
    THEN HandlerAwaits(r, [http[r] EXCEPT !.result = engine'[r].result], "validate")
  ELSE IF engine'[r].pc = "thrown"
    THEN Respond(r, http[r], 500, [error |-> "Failed to process message"])
  ELSE HandlerAwaits(r, http[r], "process")

\* storeContext of the user message settles (lines 118-125); process starts
StoreUserMessage(r, outcome) ==
  /\ http[r].pc = "storeUserMessage"
  /\ memory.isConnected \/ outcome = "stored"
  /\ memory' = storeContext(memory, [type |-> "user_message",
                                     content |-> http[r].body.message], outcome)
  /\ IF outcome = "stored"
       THEN /\ Process(r, [input |-> http[r].body.message,
                           type |-> http[r].body.reasoning_type])
            /\ ProcessMessageContinues(r)
       ELSE /\ Respond(r, [http[r] EXCEPT !.storeFailed = TRUE], 500,
                       [error |-> "Failed to process message"])
            /\ UNCHANGED <<reasoningVars, now>>
  /\ UNCHANGED <<lifecycle, isInitialized, dropped, orchestratorVars>>

\* no verdict is rejected
ValidateNeverRejecting(r, violations) ==
  /\ http[r].pc = "validate"
  /\ HandlerAwaits(r, [http[r] EXCEPT !.validation = calculateValidationResult(violations)],
                   "storeResponse")
  /\ UNCHANGED <<lifecycle, isInitialized, memory, dropped, orchestratorVars, reasoningVars, now>>

\* constitutionalAI.validate settles (lines 135-144)
Validate(r, violations) ==
  /\ http[r].pc = "validate"
  /\ LET validationResult == calculateValidationResult(violations)
         h == [http[r] EXCEPT !.validation = validationResult]
     IN  IF ~validationResult.is_valid /\ validationResult.severity = "high"
           THEN Respond(r, h, 500, [error |-> "Failed to process message"])
           ELSE HandlerAwaits(r, h, "storeResponse")
  /\ UNCHANGED <<lifecycle, isInitialized, memory, dropped, orchestratorVars, reasoningVars, now>>

\* storeContext of the response settles (lines 146-166); res.json(result)
StoreResponse(r, outcome) ==
  /\ http[r].pc = "storeResponse"
  /\ memory.isConnected \/ outcome = "stored"
  /\ memory' = storeContext(memory, [type |-> "assistant_response",
                                     content |-> http[r].result.response,
                                     validation |-> http[r].validation], outcome)
  /\ IF outcome = "stored"
       THEN Respond(r, http[r], 200,
                    [response |-> http[r].result.response,
                     reasoning |-> http[r].result.reasoning,
                     validation |-> [is_valid |-> http[r].validation.is_valid]])
       ELSE Respond(r, [http[r] EXCEPT !.storeFailed = TRUE], 500,
                    [error |-> "Failed to process message"])
  /\ UNCHANGED <<lifecycle, isInitialized, dropped, orchestratorVars, reasoningVars, now>>

\* agi-framework.ts, lines 184-190, once orchestrator.collaborate has run a
\* turn, the handler being in state h
OrchestrateAgentsContinues(r, h) ==
  IF pc'[r] = "returned"
    THEN HandlerAwaits(r, [h EXCEPT !.result = result'[r]], "storeCollaboration")
  ELSE IF pc'[r] = "thrown"
    THEN Respond(r, h, 500, [error |-> "Failed to orchestrate agents"])
  ELSE HandlerAwaits(r, h, "collaborate")

\* POST /agents/collaborate up to its first await (part_004, lines 143-166;
\* agi-framework.ts, lines 175-190)
AgentsCollaborate(r, body) ==
  /\ http[r].pc = "idle"
  /\ LET h == [http[r] EXCEPT !.route = "collaborate", !.body = body]
     IN  IF body.task = <<>> \/ body.agents.kind # "array"
           THEN /\ Respond(r, h, 400, [error |-> "Task and agents array are required"])
                /\ UNCHANGED <<orchestratorVars, now>>
         ELSE IF ~isInitialized
           THEN /\ Respond(r, h, 500, [error |-> "Failed to orchestrate agents"])
                /\ UNCHANGED <<orchestratorVars, now>>
         ELSE /\ Collaborate(r, [task |-> body.task, agents |-> body.agents.ids,
                                 type |-> body.collaboration_type])
              /\ OrchestrateAgentsContinues(r, h)
  /\ UNCHANGED <<lifecycle, isInitialized, memory, dropped, reasoningVars>>

\* storeContext of the collaboration settles (lines 192-200); res.json(result)
StoreCollaboration(r, outcome) ==
  /\ http[r].pc = "storeCollaboration"
  /\ memory.isConnected \/ outcome = "stored"
  /\ memory' = storeContext(memory, [type |-> "agent_collaboration",
                                     task |-> http[r].body.task,
                                     result |-> http[r].result], outcome)
  /\ IF outcome = "stored"
       THEN Respond(r, http[r], 200, http[r].result)
       ELSE Respond(r, [http[r] EXCEPT !.storeFailed = TRUE], 500,
                    [error |-> "Failed to orchestrate agents"])
  /\ UNCHANGED <<lifecycle, isInitialized, dropped, orchestratorVars, reasoningVars, now>>

\* the generator never answers the calls that request r is waiting for; no
\* call is given a timeout (reasoning-engine.ts, lines 130-141;
\* memory-system.ts, lines 951-969)
GeneratorDrops(r) ==
  /\ r \notin dropped
  /\ \/ engine[r].pc \notin {"idle", "returned", "thrown"}
     \/ pc[r] \notin {"idle", "returned", "thrown"}
  /\ dropped' = dropped \cup {r}
  /\ UNCHANGED <<lifecycle, isInitialized, memory, http, orchestratorVars, reasoningVars, now>>

(***************************************************************************)
(* Specifications.                                                         *)
(***************************************************************************)
\* time that passes while a generator call is awaited
Latencies == {1}
LoadLatencies == {1}

\* one collaborate request at a time, over all request shapes
Next ==
  \/ Initialize /\ UNCHANGED <<reasoningVars, frameworkVars>>
  \/ \E req \in DetailRequests :
       Collaborate(1, req) /\ UNCHANGED <<reasoningVars, frameworkVars>>
  \/ \E r \in ReqIds, reply \in AgentReplies, d \in Latencies :
       SequentialStep(r, reply, d) /\ UNCHANGED <<reasoningVars, frameworkVars>>
  \/ \E r \in ReqIds, i \in 1..MaxAgents, reply \in AgentReplies, d \in Latencies :
       ParallelBranch(r, i, reply, d) /\ UNCHANGED <<reasoningVars, frameworkVars>>
  \/ \E r \in ReqIds, reply \in AgentReplies, d \in Latencies :
       ParallelSynthesis(r, reply, d) /\ UNCHANGED <<reasoningVars, frameworkVars>>
  \/ \E r \in ReqIds, reply \in LeaderReplies, d \in Latencies :
       HierarchicalLeader(r, reply, d) /\ UNCHANGED <<reasoningVars, frameworkVars>>
  \/ \E r \in ReqIds, i \in 1..MaxAgents, reply \in AgentReplies, d \in Latencies :
       HierarchicalWorker(r, i, reply, d) /\ UNCHANGED <<reasoningVars, frameworkVars>>
  \/ \E r \in ReqIds, reply \in AgentReplies, d \in Latencies :
       HierarchicalSynthesis(r, reply, d) /\ UNCHANGED <<reasoningVars, frameworkVars>>

Spec == Init /\ [][Next]_vars

\* requests that overlap in time, over a few request shapes
NextLoad ==
  \/ Initialize /\ UNCHANGED <<reasoningVars, frameworkVars>>
  \/ \E r \in ReqIds, req \in LoadRequests :
       Collaborate(r, req) /\ UNCHANGED <<reasoningVars, frameworkVars>>
  \/ \E r \in ReqIds, reply \in LoadReplies, d \in LoadLatencies :
       SequentialStep(r, reply, d) /\ UNCHANGED <<reasoningVars, frameworkVars>>
  \/ \E r \in ReqIds, i \in 1..MaxAgents, reply \in LoadReplies, d \in LoadLatencies :
       ParallelBranch(r, i, reply, d) /\ UNCHANGED <<reasoningVars, frameworkVars>>
  \/ \E r \in ReqIds, reply \in LoadReplies, d \in LoadLatencies :
       ParallelSynthesis(r, reply, d) /\ UNCHANGED <<reasoningVars, frameworkVars>>
  \/ \E r \in ReqIds, reply \in LoadLeaderReplies, d \in LoadLatencies :
       HierarchicalLeader(r, reply, d) /\ UNCHANGED <<reasoningVars, frameworkVars>>
  \/ \E r \in ReqIds, i \in 1..MaxAgents, reply \in LoadReplies, d \in LoadLatencies :
       HierarchicalWorker(r, i, reply, d) /\ UNCHANGED <<reasoningVars, frameworkVars>>
  \/ \E r \in ReqIds, reply \in LoadReplies, d \in LoadLatencies :
       HierarchicalSynthesis(r, reply, d) /\ UNCHANGED <<reasoningVars, frameworkVars>>

SpecLoad == Init /\ [][NextLoad]_vars

\* one process request at a time, over all request shapes
NextReasoning ==
  \/ \E req \in ReasoningRequests : Process(1, req) /\ UNCHANGED <<orchestratorVars, frameworkVars>>
  \/ \E r \in ReqIds, reply \in ChainOfThoughtReplies, d \in Latencies :
       ChainOfThought(r, reply, d) /\ UNCHANGED <<orchestratorVars, frameworkVars>>
  \/ \E r \in ReqIds, reply \in PlainReplies, d \in Latencies :
       ReactThought(r, reply, d) /\ UNCHANGED <<orchestratorVars, frameworkVars>>
  \/ \E r \in ReqIds, reply \in ActionReplies, d \in Latencies :
       ReactAction(r, reply, d) /\ UNCHANGED <<orchestratorVars, frameworkVars>>
  \/ \E r \in ReqIds, reply \in BranchReplies, d \in Latencies :
       GenerateThoughtBranches(r, reply, d) /\ UNCHANGED <<orchestratorVars, frameworkVars>>
  \/ \E r \in ReqIds, reply \in PlainReplies, d \in Latencies :
       EvaluateThoughts(r, reply, d) /\ UNCHANGED <<orchestratorVars, frameworkVars>>
  \/ \E r \in ReqIds, reply \in PlainReplies, d \in Latencies :
       TreeOfThoughts(r, reply, d) /\ UNCHANGED <<orchestratorVars, frameworkVars>>
  \/ \E r \in ReqIds, reply \in PlainReplies, d \in Latencies :
       InitialResponse(r, reply, d) /\ UNCHANGED <<orchestratorVars, frameworkVars>>
  \/ \E r \in ReqIds, reply \in PlainReplies, d \in Latencies :
       Reflection(r, reply, d) /\ UNCHANGED <<orchestratorVars, frameworkVars>>
  \/ \E r \in ReqIds, reply \in PlainReplies, d \in Latencies :
       ImprovedResponse(r, reply, d) /\ UNCHANGED <<orchestratorVars, frameworkVars>>

SpecReasoning == Init /\ [][NextReasoning]_vars

\* process and collaborate requests that overlap in time; every reply arrives
\* within the millisecond in which its call was issued
NextStats ==
  \/ Initialize /\ UNCHANGED <<reasoningVars, frameworkVars>>
  \/ \E r \in ReqIds, req \in {q \in LoadRequests : q.type = "sequential"} :
       Collaborate(r, req) /\ UNCHANGED <<reasoningVars, frameworkVars>>
  \/ \E r \in ReqIds, reply \in LoadReplies :
       SequentialStep(r, reply, 0) /\ UNCHANGED <<reasoningVars, frameworkVars>>
  \/ \E r \in ReqIds, type \in {"chain-of-thought", "debate"} :
       /\ Process(r, [input |-> TheTask, type |-> type])
       /\ UNCHANGED <<orchestratorVars, frameworkVars>>
  \/ \E r \in ReqIds, reply \in {Completion(<<"x">>, 2), Rejection(<<"e">>)} :
       ChainOfThought(r, reply, 0) /\ UNCHANGED <<orchestratorVars, frameworkVars>>

SpecStats == Init /\ [][NextStats]_vars

\* the server: one request at a time on either route
NextServer ==
  \/ \E connected \in BOOLEAN : FrameworkInitialize(connected)
  \/ \E body \in ChatBodies : ChatComplete(1, body)
  \/ \E body \in CollaborateBodies : AgentsCollaborate(1, body)
  \/ \E r \in ReqIds, outcome \in StoreOutcomes : StoreUserMessage(r, outcome)
  \/ \E r \in ReqIds, violations \in ViolationLists : Validate(r, violations)
  \/ \E r \in ReqIds, outcome \in StoreOutcomes : StoreResponse(r, outcome)
  \/ \E r \in ReqIds, outcome \in StoreOutcomes : StoreCollaboration(r, outcome)
  \/ \E r \in ReqIds : GeneratorDrops(r)
  \/ \E r \in ReqIds \ dropped, reply \in ChainOfThoughtReplies, d \in Latencies :
       /\ ChainOfThought(r, reply, d) /\ ProcessMessageContinues(r)
       /\ UNCHANGED <<lifecycle, isInitialized, memory, dropped, orchestratorVars>>
  \/ \E r \in ReqIds \ dropped, reply \in PlainReplies, d \in Latencies :
       /\ ReactThought(r, reply, d) /\ ProcessMessageContinues(r)
       /\ UNCHANGED <<lifecycle, isInitialized, memory, dropped, orchestratorVars>>
  \/ \E r \in ReqIds \ dropped, reply \in ActionReplies, d \in Latencies :
       /\ ReactAction(r, reply, d) /\ ProcessMessageContinues(r)
       /\ UNCHANGED <<lifecycle, isInitialized, memory, dropped, orchestratorVars>>
  \/ \E r \in ReqIds \ dropped, reply \in BranchReplies, d \in Latencies :
       /\ GenerateThoughtBranches(r, reply, d) /\ ProcessMessageContinues(r)
       /\ UNCHANGED <<lifecycle, isInitialized, memory, dropped, orchestratorVars>>
  \/ \E r \in ReqIds \ dropped, reply \in PlainReplies, d \in Latencies :
       /\ EvaluateThoughts(r, reply, d) /\ ProcessMessageContinues(r)
       /\ UNCHANGED <<lifecycle, isInitialized, memory, dropped, orchestratorVars>>
  \/ \E r \in ReqIds \ dropped, reply \in PlainReplies, d \in Latencies :
       /\ TreeOfThoughts(r, reply, d) /\ ProcessMessageContinues(r)
       /\ UNCHANGED <<lifecycle, isInitialized, memory, dropped, orchestratorVars>>
  \/ \E r \in ReqIds \ dropped, reply \in PlainReplies, d \in Latencies :
       /\ InitialResponse(r, reply, d) /\ ProcessMessageContinues(r)
       /\ UNCHANGED <<lifecycle, isInitialized, memory, dropped, orchestratorVars>>
  \/ \E r \in ReqIds \ dropped, reply \in PlainReplies, d \in Latencies :
       /\ Reflection(r, reply, d) /\ ProcessMessageContinues(r)
       /\ UNCHANGED <<lifecycle, isInitialized, memory, dropped, orchestratorVars>>
  \/ \E r \in ReqIds \ dropped, reply \in PlainReplies, d \in Latencies :
       /\ ImprovedResponse(r, reply, d) /\ ProcessMessageContinues(r)
       /\ UNCHANGED <<lifecycle, isInitialized, memory, dropped, orchestratorVars>>
  \/ \E r \in ReqIds \ dropped, reply \in LoadReplies, d \in Latencies :
       /\ SequentialStep(r, reply, d) /\ OrchestrateAgentsContinues(r, http[r])
       /\ UNCHANGED <<lifecycle, isInitialized, memory, dropped, reasoningVars>>
  \/ \E r \in ReqIds \ dropped, i \in 1..MaxAgents, reply \in LoadReplies, d \in Latencies :
       /\ ParallelBranch(r, i, reply, d) /\ OrchestrateAgentsContinues(r, http[r])
       /\ UNCHANGED <<lifecycle, isInitialized, memory, dropped, reasoningVars>>
  \/ \E r \in ReqIds \ dropped, reply \in LoadReplies, d \in Latencies :
       /\ ParallelSynthesis(r, reply, d) /\ OrchestrateAgentsContinues(r, http[r])
       /\ UNCHANGED <<lifecycle, isInitialized, memory, dropped, reasoningVars>>
  \/ \E r \in ReqIds \ dropped, reply \in LoadLeaderReplies, d \in Latencies :
       /\ HierarchicalLeader(r, reply, d) /\ OrchestrateAgentsContinues(r, http[r])
       /\ UNCHANGED <<lifecycle, isInitialized, memory, dropped, reasoningVars>>
  \/ \E r \in ReqIds \ dropped, i \in 1..MaxAgents, reply \in LoadReplies, d \in Latencies :
       /\ HierarchicalWorker(r, i, reply, d) /\ OrchestrateAgentsContinues(r, http[r])
       /\ UNCHANGED <<lifecycle, isInitialized, memory, dropped, reasoningVars>>
  \/ \E r \in ReqIds \ dropped, reply \in LoadReplies, d \in Latencies :
       /\ HierarchicalSynthesis(r, reply, d) /\ OrchestrateAgentsContinues(r, http[r])
       /\ UNCHANGED <<lifecycle, isInitialized, memory, dropped, reasoningVars>>

SpecServer == Init /\ [][NextServer]_vars

\* the generator answers every call it has not dropped, and the event loop
\* runs every continuation that is ready
\* the framework's lifecycle: initialize, shutdown, and the gated methods
\* called at any point of it, up to their first await
NextLifecycle ==
  \/ \E connected \in BOOLEAN : FrameworkInitialize(connected)
  \/ \E connected \in BOOLEAN : FrameworkInitializeFails(connected)
  \/ FrameworkShutdown
  \/ \E quit \in BOOLEAN : FrameworkShutdownCompletes(quit)
  \/ \E r \in ReqIds, type \in {"chain-of-thought", "debate"} :
       /\ \A q \in 1..(r - 1) : http[q].pc # "idle"
       /\ ChatComplete(r, [message |-> TheTask, reasoning_type |-> type])
  \/ \E r \in ReqIds, ids \in {<<"ghost">>, <<"analyst">>} :
       /\ \A q \in 1..(r - 1) : http[q].pc # "idle"
       /\ AgentsCollaborate(r, [task |-> TheTask,
                                agents |-> [kind |-> "array", ids |-> ids],
                                collaboration_type |-> "sequential"])
  \/ \E r \in ReqIds, method \in GatedMethods :
       /\ \A q \in 1..(r - 1) : http[q].pc # "idle"
       /\ GatedCall(r, method)
  \/ \E r \in ReqIds, outcome \in StoreOutcomes : GatedCallSettles(r, outcome)

SpecLifecycle == Init /\ [][NextLifecycle]_vars

SpecServerFair == SpecServer /\ WF_vars(NextServer)


(***************************************************************************)
(* Properties.                                                             *)
(***************************************************************************)
Finished(r) == pc[r] \in {"returned", "thrown"}

Runs(r, type) == pc[r] # "idle" /\ request[r].type = type /\ selectedAgents[r] # <<>>

\* the branch calls of a parallel request have all been answered
BranchesResolved(r) ==
  /\ Runs(r, "parallel")
  /\ \A i \in 1..Len(selectedAgents[r]) : calls[r][i].reply # NoReply

\* C1: when a sequential collaboration returns after the call of the agent
\* at index k (counted from 0) was the first to fail, final_result is the
\* output of the last successful step, steps[k-1].output, or an explicit
\* empty result when k = 0; it is never the failed step's own output.
C1_FinalResultIsLastGoodOutput ==
  \A r \in ReqIds :
    (pc[r] = "returned" /\ result[r].type = "sequential" /\ ~result[r].success) =>
      LET ss == result[r].steps
          failed == Len(ss)
      IN  /\ result[r].final_result # ss[failed].output
          /\ IF failed = 1
               THEN result[r].final_result \in {<<>>, NoResultText}
               ELSE result[r].final_result = ss[failed - 1].output

\* C2: in a sequential collaboration steps[0].input is the original task and
\* every later step's input is the previous step's output, the failed step
\* included.
C2_SequentialChaining ==
  \A r \in ReqIds :
    Runs(r, "sequential") =>
      LET ss == IF pc[r] = "returned" THEN result[r].steps ELSE steps[r]
      IN  \A i \in 1..Len(ss) :
            ss[i].input = IF i = 1 THEN request[r].task ELSE ss[i - 1].output

C2_Witness ==
  \E r \in ReqIds :
    /\ pc[r] = "returned" /\ result[r].type = "sequential"
    /\ Len(result[r].steps) = 3
    /\ ~result[r].steps[3].success
    /\ result[r].steps[1].output # result[r].steps[2].output
    /\ result[r].steps[2].output # request[r].task

\* C3: once all n >= 1 collaborate requests have completed, in any
\* interleaving of their starts and completions, success_rate is the number
\* of requests that succeeded divided by n.
C3_SuccessRateIsFraction ==
  LET started == {r \in ReqIds : pc[r] # "idle"}
      succeeded == {r \in started : pc[r] = "returned" /\ result[r].success}
  IN  (started # {} /\ \A r \in started : Finished(r)) =>
        stats.success_rate = Rat(Cardinality(succeeded), Cardinality(started))

\* C4: a parallel collaboration that returns a result has one step per
\* requested agent, whichever branches failed.
C4_ParallelStepPerAgent ==
  \A r \in ReqIds :
    (pc[r] = "returned" /\ result[r].type = "parallel") =>
      Len(result[r].steps) = Len(request[r].agents)

C4_Witness ==
  \E r \in ReqIds :
    /\ pc[r] = "returned" /\ result[r].type = "parallel"
    /\ Len(request[r].agents) = 3
    /\ ~result[r].steps[1].success
    /\ result[r].steps[2].success
    /\ ~result[r].steps[3].success

\* C5: a collaborate call whose agent id list holds an id that is not in the
\* registry throws the unknown-agent error in its first turn, whatever the
\* topology and whatever ids precede the unknown one, and no generator call
\* is ever issued for the request.
C5_UnknownAgentBeforeAnyCall ==
  [][\A r \in ReqIds :
       /\ (/\ pc[r] = "idle" /\ pc'[r] # "idle"
           /\ \E i \in 1..Len(request'[r].agents) : request'[r].agents[i] \notin DOMAIN agents)
          => (pc'[r] = "thrown" /\ error'[r].kind = "AgentNotFound" /\ calls'[r] = <<>>)
       /\ (pc[r] = "thrown" /\ error[r].kind = "AgentNotFound")
          => (calls[r] = <<>> /\ calls'[r] = <<>>)]_vars

C5_Witness ==
  \E r \in ReqIds :
    /\ pc[r] = "thrown" /\ error[r].kind = "AgentNotFound" /\ error[r].id = "ghost"
    /\ Len(request[r].agents) = 3
    /\ request[r].agents[1] = "analyst" /\ request[r].agents[2] = "creative"
    /\ request[r].type = "parallel"
    /\ calls[r] = <<>>

C7_SynthesisOverSuccessfulBranches ==
  \A r \in ReqIds :
    (BranchesResolved(r) /\ \E i \in 1..Len(results[r]) : results[r][i].success) =>
      LET n == Len(selectedAgents[r])
          shown == calls[r][n + 1].user.results
      IN  /\ Len(calls[r]) = n + 1
          /\ calls[r][n + 1].user.template = "parallelSynthesis"
          /\ Len(shown) = Cardinality({i \in 1..n : results[r][i].success})
          /\ \A i \in 1..n :
               IF results[r][i].success
                 THEN \E k \in 1..Len(shown) :
                        /\ shown[k].name = results[r][i].agent.name
                        /\ shown[k].output = results[r][i].output
                 ELSE \A k \in 1..Len(shown) : shown[k].output # results[r][i].output

C7_Witness ==
  \E r \in ReqIds :
    /\ BranchesResolved(r) /\ pc[r] = "returned"
    /\ Len(selectedAgents[r]) = 3
    /\ results[r][1].success /\ ~results[r][2].success /\ results[r][3].success
    /\ Len(calls[r]) = 4

\* C8: in a parallel collaboration in which every branch failed, no synthesis
\* call is issued and collaborate returns, without throwing, a result with
\* success = false whose final_result is the fixed text saying that
\* synthesis was not possible.
C8_AllBranchesFailed ==
  \A r \in ReqIds :
    (BranchesResolved(r) /\ \A i \in 1..Len(results[r]) : ~results[r][i].success) =>
      /\ pc[r] = "returned"
      /\ Len(calls[r]) = Len(selectedAgents[r])
      /\ ~result[r].success
      /\ result[r].final_result = AllParallelFailedText

C8_Witness ==
  \E r \in ReqIds :
    /\ pc[r] = "returned" /\ result[r].type = "parallel"
    /\ Len(result[r].steps) = 3
    /\ \A i \in 1..3 : ~result[r].steps[i].success
    /\ result[r].final_result = AllParallelFailedText

\* the step that the reply to a call must have produced, at its place
StepFor(s, number, agent, input, reply) ==
  /\ s.step_number = number
  /\ s.agent = agent
  /\ s.input = input
  /\ s.success = (reply.kind = "content")
  /\ reply.kind = "content" => s.output = reply.text

\* C9: in parallel collaboration and in the worker phase of hierarchical
\* collaboration, whatever the order in which the concurrent calls are
\* answered, the step of branch i stands at position i of the branch
\* results: parallel steps[i] belongs to agents[i] with step_number i + 1,
\* the worker step of subtask i belongs to worker i with step_number i + 2
\* (i counted from 0), and each step carries the reply to its own call.
C9_StepsInInputOrder ==
  \A r \in ReqIds :
    /\ Runs(r, "parallel") =>
         /\ \A i \in 1..Len(results[r]) :
              IF calls[r][i].reply = NoReply
                THEN IsPending(results[r][i])
                ELSE StepFor(results[r][i], i, selectedAgents[r][i], request[r].task,
                             calls[r][i].reply)
         /\ pc[r] = "returned" => result[r].steps = results[r]
    /\ (Runs(r, "hierarchical") /\ Len(steps[r]) >= 1) =>
         /\ \A i \in 1..Len(results[r]) :
              IF calls[r][i + 1].reply = NoReply
                THEN IsPending(results[r][i])
                ELSE StepFor(results[r][i], i + 1, selectedAgents[r][i + 1],
                             subtasks[r][i], calls[r][i + 1].reply)
         /\ pc[r] = "returned" =>
              \A i \in 1..Len(results[r]) : result[r].steps[i + 1] = results[r][i]

C9_Witness ==
  \E r \in ReqIds :
    /\ pc[r] = "parallel"
    /\ Len(selectedAgents[r]) = 3
    /\ selectedAgents[r][1] # selectedAgents[r][3]
    /\ calls[r][1].reply = NoReply
    /\ calls[r][2].reply = NoReply
    /\ calls[r][3].reply # NoReply
    /\ results[r][3].step_number = 3

Newline == <<"\n">>
ParagraphBreak == <<"\n", "\n">>

\* no line of the text carries the SUBTASK marker
NoSubtaskMarker(text) ==
  LET lines == split(text, Newline)
  IN  \A i \in 1..Len(lines) : ~includes(toUpperCase(lines[i]), SubtaskMarker)

\* the paragraphs of the text whose trimmed length is at least n
ParagraphsAtLeast(text, n) ==
  SelectSeq(split(text, ParagraphBreak), LAMBDA p : Len(trim(p)) >= n)

\* the paragraphs of the text whose trimmed length is exactly n
ParagraphsOfExactly(text, n) ==
  SelectSeq(split(text, ParagraphBreak), LAMBDA p : Len(trim(p)) = n)

\* a leader with two workers has decomposed the task
TwoWorkersDecomposed(r) ==
  Runs(r, "hierarchical") /\ Len(selectedAgents[r]) = 3 /\ Len(steps[r]) >= 1

\* call number k of request r hands the subtask to the worker
WorkerCall(r, k, worker, subtask) ==
  /\ Len(calls[r]) >= k
  /\ calls[r][k].user.template = "worker"
  /\ calls[r][k].user.subtask = subtask
  /\ calls[r][k].system = worker.system_prompt
  /\ calls[r][k].user.role = worker.role

\* C10 as stated: with one leader and two workers, when the decomposition has
\* no SUBTASK marker line and exactly two paragraphs of at least 50
\* characters, paragraph 0 goes to worker[0] and paragraph 1 to worker[1].
C10_TwoParagraphsOfAtLeast50 ==
  \A r \in ReqIds :
    TwoWorkersDecomposed(r) =>
      LET long == ParagraphsAtLeast(taskBreakdown[r], ParagraphMinLength)
      IN  (NoSubtaskMarker(taskBreakdown[r]) /\ Len(long) = 2) =>
            /\ WorkerCall(r, 2, selectedAgents[r][2], long[1])
            /\ WorkerCall(r, 3, selectedAgents[r][3], long[2])

\* C10 as amended: with one leader and two workers, when the decomposition
\* has no SUBTASK marker line and exactly two paragraphs whose trimmed length
\* is more than 50 characters, paragraph 0 goes to worker[0] and paragraph 1
\* to worker[1], in that order; a paragraph of exactly 50 characters is not
\* dispatched.
C10_TwoParagraphsLongerThan50 ==
  \A r \in ReqIds :
    (TwoWorkersDecomposed(r) /\ NoSubtaskMarker(taskBreakdown[r])) =>
      LET long == ParagraphsAtLeast(taskBreakdown[r], ParagraphMinLength + 1)
          exact == ParagraphsOfExactly(taskBreakdown[r], ParagraphMinLength)
      IN  /\ Len(long) = 2 =>
               /\ WorkerCall(r, 2, selectedAgents[r][2], long[1])
               /\ WorkerCall(r, 3, selectedAgents[r][3], long[2])
          /\ \A k \in 1..Len(calls[r]), j \in 1..Len(exact) :
               calls[r][k].user.template = "worker" => calls[r][k].user.subtask # exact[j]

C10_Witness ==
  \E r \in ReqIds :
    /\ pc[r] = "returned" /\ result[r].type = "hierarchical"
    /\ Len(result[r].steps) = 4
    /\ selectedAgents[r][2] # selectedAgents[r][3]
    /\ result[r].steps[2].input = Fill("p", 51)
    /\ result[r].steps[2].agent = selectedAgents[r][2]
    /\ result[r].steps[3].input = Fill("q", 51)
    /\ result[r].steps[3].agent = selectedAgents[r][3]

\* the leader's decomposition call of a hierarchical request was answered
\* with a breakdown and workers were dispatched
WorkersDispatched(r) ==
  /\ Runs(r, "hierarchical")
  /\ pc[r] \in {"workers", "hierarchicalSynthesis", "returned", "thrown"}
  /\ calls[r][1].reply.kind = "content"

\* C11: in a hierarchical collaboration the calls of all dispatched workers
\* are issued together and each is answered whatever the outcome of the
\* others; once they are all answered the leader's synthesis call is issued,
\* failed workers or not; collaborate throws only when one of the leader's
\* own two calls fails, and otherwise returns a result whose success is the
\* conjunction of the worker steps' success flags, the first and the last
\* step (the leader's) not taking part.
C11_WorkerFailureDoesNotAbort ==
  \A r \in ReqIds :
    WorkersDispatched(r) =>
      LET m == Len(results[r])
          synthesis == m + 2
      IN  /\ Len(calls[r]) >= m + 1
          /\ \A k \in 1..m : calls[r][k + 1].user.template = "worker"
          /\ pc[r] = "workers" => \E k \in 1..m : calls[r][k + 1].reply = NoReply
          /\ pc[r] # "workers" =>
               /\ \A k \in 1..m : calls[r][k + 1].reply # NoReply
               /\ Len(calls[r]) = synthesis
               /\ calls[r][synthesis].user.template = "hierarchicalSynthesis"
          /\ pc[r] = "thrown" => calls[r][synthesis].reply.kind \in {"error", "thrown"}
          /\ pc[r] = "returned" =>
               /\ calls[r][synthesis].reply.kind = "content"
               /\ Len(result[r].steps) = synthesis
               /\ result[r].steps[1].success /\ result[r].steps[synthesis].success
               /\ result[r].success =
                    (\A k \in 1..m : result[r].steps[k + 1].success)
               /\ \A k \in 1..m :
                    result[r].steps[k + 1].success = (calls[r][k + 1].reply.kind = "content")

C11_Witness ==
  \E r \in ReqIds :
    /\ pc[r] = "returned" /\ result[r].type = "hierarchical"
    /\ Len(result[r].steps) = 4
    /\ result[r].steps[1].success
    /\ ~result[r].steps[2].success
    /\ result[r].steps[3].success
    /\ result[r].steps[4].success
    /\ ~result[r].success

\* C15: a sequential collaboration is a fail-fast chain: when the call of the
\* agent at index k (counted from 0) is the first to fail, no call is issued
\* for an agent after it, steps has exactly k + 1 entries of which only the
\* last has success = false, the result's success is false, and collaborate
\* returns that result; a sequential run never throws.
C15_SequentialFailFast ==
  \A r \in ReqIds :
    Runs(r, "sequential") =>
      /\ pc[r] # "thrown"
      /\ \A j \in 1..Len(calls[r]) :
           calls[r][j].reply.kind \in {"error", "thrown"} =>
             /\ Len(calls[r]) = j
             /\ \A i \in 1..(j - 1) : calls[r][i].reply.kind = "content"
             /\ pc[r] = "returned"
             /\ Len(result[r].steps) = j
             /\ \A i \in 1..(j - 1) : result[r].steps[i].success
             /\ ~result[r].steps[j].success
             /\ ~result[r].success
             /\ result[r].steps = steps[r]

C15_Witness ==
  \E r \in ReqIds :
    /\ pc[r] = "returned" /\ result[r].type = "sequential"
    /\ Len(selectedAgents[r]) = 3
    /\ Len(calls[r]) = 2
    /\ Len(result[r].steps) = 2
    /\ result[r].steps[1].success
    /\ ~result[r].steps[2].success
    /\ ~result[r].success

\* C16: collaborate called with an empty list of agent ids, whatever the
\* collaboration type, throws the empty-agent-set error ('No valid agents
\* provided'), which is not the unknown-agent error, and no generator call
\* has been issued for the request.
C16_EmptyAgentList ==
  \A r \in ReqIds :
    (pc[r] # "idle" /\ request[r].agents = <<>>) =>
      /\ pc[r] = "thrown"
      /\ error[r] = [kind |-> "NoValidAgents"]
      /\ error[r].kind # "AgentNotFound"
      /\ calls[r] = <<>>

C16_Witness ==
  \E r \in ReqIds :
    /\ pc[r] = "thrown" /\ request[r].agents = <<>>
    /\ request[r].type = "hierarchical"
    /\ "analyst" \in DOMAIN agents
    /\ error[r].kind = "NoValidAgents"
    /\ stats.total_collaborations = 1

\* the request in slot r of the engine is of the given reasoning type
Processes(r, type) == engine[r].pc # "idle" /\ engine[r].request.type = type

\* C12: for every reasoning type, when a generator call made during process
\* fails, process throws the error of that call, no ReasoningResult is
\* returned (the steps already produced are not exposed), and the failed call
\* is the last call issued for the request.
C12_GeneratorFailureThrows ==
  \A r \in ReqIds :
    \A k \in 1..Len(engine[r].calls) :
      engine[r].calls[k].reply.kind = "error" =>
        /\ k = Len(engine[r].calls)
        /\ engine[r].pc = "thrown"
        /\ engine[r].error = [kind |-> "Generator", reply |-> engine[r].calls[k].reply]
        /\ engine[r].result = None

C12_Witness ==
  \E r \in ReqIds :
    /\ Processes(r, "react")
    /\ engine[r].pc = "thrown"
    /\ Len(engine[r].reasoning) = 2
    /\ Len(engine[r].calls) = 6
    /\ engine[r].calls[6].reply.kind = "error"
    /\ engine[r].result = None

\* C13: a react request runs at most 5 iterations and issues at most 10
\* generator calls; no iteration follows one whose action text contains
\* 'ANSWER' in any letter case; a returned result has k steps, 1 <= k <= 5,
\* numbered 1..k, the loop having stopped because step k's action contains
\* 'ANSWER' or k = 5, and its response is the observation of step k.
C13_ReactLoopBounded ==
  \A r \in ReqIds :
    Processes(r, "react") =>
      LET e == engine[r]
          k == Len(e.reasoning)
          answers(step) == includes(toUpperCase(step.action), <<"A", "N", "S", "W", "E", "R">>)
      IN  /\ k <= 5
          /\ Len(e.calls) <= 10
          /\ Len(e.calls) <= 2 * k + 2
          /\ \A i \in 1..k : e.reasoning[i].step_number = i
          /\ \A i \in 1..(k - 1) : ~answers(e.reasoning[i])
          /\ (k >= 1 /\ answers(e.reasoning[k])) => Len(e.calls) = 2 * k
          /\ e.pc \in {"react", "reactAction"} => k < 5
          /\ e.pc = "returned" =>
               /\ k >= 1
               /\ Len(e.calls) = 2 * k
               /\ e.result.reasoning = e.reasoning
               /\ answers(e.reasoning[k]) \/ k = 5
               /\ e.result.response = e.reasoning[k].observation

C13_Witness ==
  \E r \in ReqIds :
    /\ Processes(r, "react")
    /\ engine[r].pc = "returned"
    /\ Len(engine[r].result.reasoning) = 3
    /\ engine[r].result.reasoning[2].action = <<"s", "e", "a", "r", "c", "h">>
    /\ engine[r].result.reasoning[3].action = <<"a", "n", "s", "w", "e", "r">>
    /\ engine[r].result.response = AnswerObservation

\* min(0.8 + min(0.05 * n, 0.2), 1.0)
ExpectedConfidence(n) ==
  LET bonus == IF 5 * n < 20 THEN Rat(5 * n, 100) ELSE Rat(20, 100)
      sum == Rat(8 * bonus[2] + 10 * bonus[1], 10 * bonus[2])
  IN  IF sum[1] > sum[2] THEN <<1, 1>> ELSE sum

C17_StatsUpdatedOncePerRequest ==
  [][LET done == {"returned", "thrown"}
         startedP == {r \in ReqIds : engine[r].pc = "idle" /\ engine'[r].pc # "idle"}
         finishedP == {r \in ReqIds : engine[r].pc \notin done /\ engine'[r].pc \in done}
         startedC == {r \in ReqIds : pc[r] = "idle" /\ pc'[r] # "idle"}
         finishedC == {r \in ReqIds : pc[r] \notin done /\ pc'[r] \in done}
         n == engineStats'.total_processes
         m == stats'.total_collaborations
     IN  /\ n = engineStats.total_processes + Cardinality(startedP)
         /\ m = stats.total_collaborations + Cardinality(startedC)
         /\ Cardinality(finishedP) <= 1 /\ Cardinality(finishedC) <= 1
         /\ finishedP = {} => engineStats' = [engineStats EXCEPT !.total_processes = n]
         /\ finishedC = {} => stats' = [stats EXCEPT !.total_collaborations = m]
         /\ \A r \in finishedP :
              LET ok == engine'[r].pc = "returned"
              IN  engineStats' =
                    [total_processes |-> n,
                     success_rate |->
                       RunningMean(engineStats.success_rate, n, IF ok THEN 1 ELSE 0),
                     avg_processing_time |->
                       RunningMean(engineStats.avg_processing_time, n,
                                   now' - engine'[r].startTime),
                     avg_tokens_used |->
                       RunningMean(engineStats.avg_tokens_used, n,
                                   IF ok THEN engine'[r].result.tokens_used ELSE 0)]
         /\ \A r \in finishedC :
              LET ok == pc'[r] = "returned"
              IN  stats' =
                    [total_collaborations |-> m,
                     success_rate |->
                       RunningMean(stats.success_rate, m,
                                   IF ok /\ result'[r].success THEN 1 ELSE 0),
                     avg_execution_time |->
                       RunningMean(stats.avg_execution_time, m, now' - startTime'[r]),
                     avg_agents_per_task |->
                       RunningMean(stats.avg_agents_per_task, m,
                                   IF ok THEN Len(selectedAgents'[r])
                                   ELSE Len(request'[r].agents))]
         /\ \A r \in ReqIds :
              /\ engine[r].pc \in done => engine'[r] = engine[r]
              /\ pc[r] \in done => pc'[r] = pc[r] /\ result'[r] = result[r]]_vars

\* of two process requests one returned and one threw after its generator
\* call was rejected; of two collaborate requests one returned a failed
\* result and one threw
C17_Witness ==
  /\ engineStats.total_processes = 2 /\ stats.total_collaborations = 2
  /\ \E r, q \in ReqIds :
       /\ engine[r].pc = "returned" /\ engine[q].pc = "thrown"
       /\ Len(engine[q].calls) = 1
  /\ \E r, q \in ReqIds :
       /\ pc[r] = "returned" /\ ~result[r].success
       /\ pc[q] = "thrown" /\ error[q].kind = "AgentNotFound"
  /\ engineStats.success_rate = Rat(1, 2)

\* C18: when a storeContext of a request fails, processMessage and
\* orchestrateAgents still return the reasoning or collaboration result: the
\* route answers with the result and not with an error.
C18_StoreFailureNotPropagated ==
  \A r \in ReqIds :
    (http[r].pc = "responded" /\ http[r].storeFailed) =>
      /\ http[r].response.status = 200
      /\ http[r].route = "collaborate" => http[r].response.body = result[r]
      /\ http[r].route = "chat" =>
           http[r].response.body.response = engine[r].result.response

\* C20: at the request boundary a configuration error (unknown agent id,
\* empty agent list, unknown topology or reasoning type) is answered with a
\* client-error status, a propagated generation failure with a server-error
\* status, and a returned collaboration result with success = false with a
\* 2xx status and the steps.
C20_FailureChannelsDistinct ==
  \A r \in ReqIds :
    (http[r].pc = "responded" /\ ~http[r].storeFailed) =>
      LET status == http[r].response.status
          thrown == IF pc[r] = "thrown" THEN error[r]
                    ELSE IF engine[r].pc = "thrown" THEN engine[r].error ELSE None
          configuration == {"AgentNotFound", "NoValidAgents", "UnknownType",
                            "UnknownReasoningType"}
      IN  /\ thrown.kind \in configuration => status \in 400..499
          /\ thrown.kind \notin configuration \cup {"none"} => status \in 500..599
          /\ (pc[r] = "returned" /\ ~result[r].success) =>
               /\ status \in 200..299
               /\ http[r].response.body.steps = result[r].steps

\* C19: every process and every collaborate request that has started
\* eventually returns or throws, also when the generator never answers one
\* of its calls.
C19_EveryRequestCompletes ==
  \A r \in ReqIds :
    (engine[r].pc # "idle" \/ pc[r] # "idle")
      ~> (engine[r].pc \in {"returned", "thrown"} \/ pc[r] \in {"returned", "thrown"})

\* C21: in a hierarchical collaboration the leader's synthesis call is given
\* the outputs of the successful worker steps only; the output of a worker
\* step whose call failed is never presented to it.
C21_SynthesisOverSurvivors ==
  \A r \in ReqIds :
    (Runs(r, "hierarchical") /\ Len(calls[r]) > 1) =>
      LET call == calls[r][Len(calls[r])]
          survivors == SelectSeq(results[r], LAMBDA s : s.success)
      IN  call.user.template = "hierarchicalSynthesis" =>
            call.user.results = [k \in 1..Len(survivors) |->
                                   [name |-> survivors[k].agent.name,
                                    output |-> survivors[k].output]]

\* C22: for every reasoning type the confidence of the result process
\* returns is calculateConfidence of the result's steps: the mean of the
\* step confidences plus min(0.05 * len(steps), 0.2), at most 1.
C22_ConfidenceIsProjection ==
  \A r \in ReqIds :
    engine[r].pc = "returned" =>
      engine[r].result.confidence = calculateConfidence(engine[r].result.reasoning)

\* C23: every result returned by process (any reasoning type) or by
\* collaborate (any topology) has at least one step, whatever texts the
\* generator replied with, the empty text included.
C23_ResultHasAStep ==
  \A r \in ReqIds :
    /\ engine[r].pc = "returned" => Len(engine[r].result.reasoning) >= 1
    /\ pc[r] = "returned" => Len(result[r].steps) >= 1

\* C24: a process request naming an unknown reasoning type and a collaborate
\* request naming an unknown collaboration type are rejected with an error
\* in their first turn; no generator call is ever issued for them and they
\* are never run again.
C24_UnknownTypeRejected ==
  \A r \in ReqIds :
    /\ (/\ engine[r].pc # "idle"
        /\ engine[r].request.type \notin
             {"chain-of-thought", "react", "tree-of-thoughts", "self-reflection"}) =>
         /\ engine[r].pc = "thrown" /\ engine[r].calls = <<>>
         /\ engine[r].error = [kind |-> "UnknownReasoningType",
                               type |-> engine[r].request.type]
         /\ engine[r].result = None
    /\ (pc[r] # "idle" /\ request[r].type \notin {"sequential", "parallel", "hierarchical"}) =>
         /\ pc[r] = "thrown" /\ calls[r] = <<>> /\ steps[r] = <<>>
         /\ error[r].kind \in {"UnknownType", "AgentNotFound", "NoValidAgents"}
         /\ result[r] = None

\* a collaborate request with registered agents and an unknown type was
\* answered by the route
C24_Witness ==
  \E r \in ReqIds :
    /\ http[r].pc = "responded" /\ http[r].route = "collaborate"
    /\ pc[r] = "thrown" /\ error[r] = [kind |-> "UnknownType", type |-> "debate"]
    /\ Len(selectedAgents[r]) = 2
    /\ stats.total_collaborations = 1

\* C25: the merge step comes strictly after all branches: in a parallel
\* collaboration the synthesis call is in flight, and the branch steps are in
\* the steps array, only when every branch call has been answered; in a
\* hierarchical collaboration the same holds for the leader's synthesis call
\* and the dispatched worker calls.
C25_MergeAfterAllBranches ==
  \A r \in ReqIds :
    LET synthesis(k) == calls[r][k].user.template \in {"parallelSynthesis",
                                                       "hierarchicalSynthesis"}
        unanswered == {k \in 1..Len(calls[r]) : ~synthesis(k) /\ calls[r][k].reply = NoReply}
    IN  /\ (\E k \in 1..Len(calls[r]) : synthesis(k)) => unanswered = {}
        /\ (Runs(r, "parallel") /\ unanswered # {}) =>
             pc[r] = "parallel" /\ steps[r] = <<>>
        /\ (Runs(r, "hierarchical") /\ unanswered # {} /\ Len(calls[r]) > 1) =>
             pc[r] = "workers" /\ Len(steps[r]) = 1
        /\ pc[r] \in {"parallelSynthesis", "hierarchicalSynthesis"} =>
             /\ synthesis(Len(calls[r]))
             /\ \A k \in 1..(Len(calls[r]) - 1) : ~synthesis(k)

\* a parallel request over three agents awaits its synthesis call after a
\* failed and two successful branches
C25_Witness ==
  \E r \in ReqIds :
    /\ pc[r] = "parallelSynthesis" /\ Len(selectedAgents[r]) = 3
    /\ Len(calls[r]) = 4 /\ calls[r][4].reply = NoReply
    /\ ~results[r][1].success /\ results[r][2].success /\ results[r][3].success
    /\ Len(steps[r]) = 3

\* C26: in a parallel collaboration every branch works on the original task
\* and nothing is chained: the prompt of every branch call is built from
\* request.task, and the input of every branch step is request.task,
\* whatever the other branches answered and in whatever order.
C26_ParallelBranchesShareTask ==
  \A r \in ReqIds :
    Runs(r, "parallel") =>
      LET n == Len(selectedAgents[r])
      IN  /\ \A i \in 1..n :
               /\ calls[r][i].user.template = "agent"
               /\ calls[r][i].user.task = request[r].task
               /\ ~IsPending(results[r][i]) => results[r][i].input = request[r].task
          /\ pc[r] = "returned" =>
               /\ Len(result[r].steps) = n
               /\ \A i \in 1..n : result[r].steps[i].input = request[r].task

\* a parallel request over three agents returned; the branches gave
\* different outputs, none of them the task, and one failed
C26_Witness ==
  \E r \in ReqIds :
    /\ pc[r] = "returned" /\ result[r].type = "parallel"
    /\ Len(result[r].steps) = 3
    /\ result[r].steps[1].output = <<"a">> /\ result[r].steps[2].output = <<>>
    /\ ~result[r].steps[3].success
    /\ result[r].steps[1].output # request[r].task

\* C27: collaborate leaves the agent registry unchanged, in every topology
\* and on its success and failure paths: no step of a collaborate request
\* changes the set of registered ids or a field of a registered Agent, and
\* the agents a request works with stay equal to their registry entries.
C27_RegistryUnchanged ==
  [][/\ (\E r \in ReqIds : pc'[r] # pc[r] \/ calls'[r] # calls[r] \/ steps'[r] # steps[r])
          => agents' = agents
     /\ \A r \in ReqIds :
          \A i \in 1..Len(selectedAgents'[r]) :
            /\ request'[r].agents[i] \in DOMAIN agents'
            /\ selectedAgents'[r][i] = agents'[request'[r].agents[i]]]_vars

\* a parallel request over three agents returned after the synthesis over
\* two branches, the third having failed, and the registry holds the
\* predefined agents
C27_Witness ==
  /\ agents = setAll(EmptyRegistry, predefinedAgents)
  /\ \E r \in ReqIds :
       /\ pc[r] = "returned" /\ result[r].type = "parallel" /\ ~result[r].success
       /\ Len(calls[r]) = 4 /\ ~results[r][3].success
       /\ results[r][3].agent.id \in DOMAIN agents

\* C28: starting from a freshly constructed engine and orchestrator, once
\* the first request has completed the reported means are that request's
\* own values (success_rate 1 if it succeeded else 0, average time its
\* latency, average tokens its token count, avg_agents_per_task its agent
\* count): the constructor's initial values leave no trace.
C28_FirstRequestSetsMeans ==
  LET done == {"returned", "thrown"}
      doneP == {r \in ReqIds : engine[r].pc \in done}
      doneC == {r \in ReqIds : pc[r] \in done}
  IN  /\ Cardinality(doneP) = 1 =>
           \A r \in doneP :
             IF engine[r].pc = "returned"
               THEN /\ engineStats.success_rate = Rat(1, 1)
                    /\ engineStats.avg_processing_time =
                         Rat(engine[r].result.processing_time, 1)
                    /\ engineStats.avg_tokens_used = Rat(engine[r].result.tokens_used, 1)
               ELSE /\ engineStats.success_rate = Rat(0, 1)
                    /\ engineStats.avg_tokens_used = Rat(0, 1)
      /\ Cardinality(doneC) = 1 =>
           \A r \in doneC :
             IF pc[r] = "returned"
               THEN /\ stats.success_rate = Rat(IF result[r].success THEN 1 ELSE 0, 1)
                    /\ stats.avg_execution_time = Rat(result[r].execution_time, 1)
                    /\ stats.avg_agents_per_task = Rat(Len(selectedAgents[r]), 1)
               ELSE /\ stats.success_rate = Rat(0, 1)
                    /\ stats.avg_agents_per_task = Rat(Len(request[r].agents), 1)

\* C29: each completed top-level request, a processMessage as well as an
\* orchestrateAgents that returned its result, has written exactly one
\* record to the memory store.
C29_OneRecordPerRequest ==
  \A r \in ReqIds :
    (http[r].pc = "responded" /\ http[r].response.status = 200) =>
      Len(memory.records) = 1

\* C30: for tree-of-thoughts the candidates are the first lines of the
\* generation reply, at most 3, that are not empty (white space apart); the
\* ranking call is shown them and its reply never reorders them; the
\* final-answer call is conditioned on the first candidate; the steps of
\* the result list the candidates in their original order; a request issues
\* never more than 3 generator calls and exactly 3 when it returns.
C30_TreeOfThoughtsCandidates ==
  \A r \in ReqIds :
    (engine[r].pc # "idle" /\ engine[r].request.type = "tree-of-thoughts") =>
      LET cs == engine[r].calls
          lines == split(cs[1].reply.text, <<"\n">>)
          filled == SelectSeq(lines, LAMBDA l : \E i \in 1..Len(l) : l[i] \notin Whitespace)
          candidates == SubSeq(filled, 1, IF Len(filled) < 3 THEN Len(filled) ELSE 3)
      IN  /\ Len(cs) \in 1..3
          /\ Len(cs) >= 2 =>
               /\ cs[2].user.template = "evaluateThoughts"
               /\ cs[2].user.thoughts = candidates
          /\ Len(cs) = 3 =>
               /\ cs[3].user.template = "bestPath"
               /\ candidates # <<>> => cs[3].user.bestPath = candidates[1]
          /\ engine[r].pc = "returned" =>
               /\ Len(cs) = 3
               /\ Len(engine[r].result.reasoning) = Len(candidates)
               /\ \A k \in 1..Len(candidates) :
                    /\ engine[r].result.reasoning[k].thought = candidates[k]
                    /\ engine[r].result.reasoning[k].step_number = k

\* a tree-of-thoughts request returned; its generation reply had a blank
\* line among five lines, and the ranking call was answered
C30_Witness ==
  \E r \in ReqIds :
    /\ engine[r].pc = "returned" /\ engine[r].request.type = "tree-of-thoughts"
    /\ engine[r].calls[1].reply.text = <<"a", "\n", " ", "\n", "b", "\n", "c", "\n", "d">>
    /\ engine[r].calls[2].reply.text = <<"a">>
    /\ Len(engine[r].result.reasoning) = 3
    /\ engine[r].result.reasoning[3].thought = <<"c">>

\* the calls of a request built from the worker template, as positions in
\* the order of issue
WorkerCallPositions(r) ==
  {k \in 1..Len(calls[r]) : calls[r][k].user.template = "worker"}

\* C31: in a hierarchical collaboration with w workers (the agents after the
\* first) whose decomposition was parsed into s subtasks, exactly min(s, w)
\* worker calls are issued, the i-th of them built for the worker at
\* position i with the subtask at position i; no worker position receives a
\* second call and the subtasks from position w on are given to nobody.
C31_MinOfSubtasksAndWorkers ==
  \A r \in ReqIds :
    WorkersDispatched(r) =>
      LET s == Len(subtasks[r])
          w == Len(selectedAgents[r]) - 1
          m == IF s < w THEN s ELSE w
      IN  /\ WorkerCallPositions(r) = 2..(m + 1)
          /\ \A i \in 1..m :
               /\ calls[r][i + 1].user.subtask = subtasks[r][i]
               /\ calls[r][i + 1].system = selectedAgents[r][i + 1].system_prompt
               /\ calls[r][i + 1].user.role = selectedAgents[r][i + 1].role
               /\ calls[r][i + 1].model = selectedAgents[r][i + 1].model
          /\ Finished(r) => Len(calls[r]) = m + 2

\* a hierarchical request with one worker returned after a decomposition
\* into two subtasks: the worker was given the first and the second was
\* dropped
C31_Witness ==
  \E r \in ReqIds :
    /\ pc[r] = "returned" /\ result[r].type = "hierarchical"
    /\ Len(selectedAgents[r]) = 2
    /\ subtasks[r] = << <<"x">>, <<"y">> >>
    /\ Len(result[r].steps) = 3
    /\ result[r].steps[2].input = <<"x">>
    /\ result[r].steps[2].agent = selectedAgents[r][2]

\* a hierarchical request with two workers and one parsed subtask returned:
\* the second worker was never called
C31_WitnessIdleWorker ==
  \E r \in ReqIds :
    /\ pc[r] = "returned" /\ result[r].type = "hierarchical"
    /\ Len(selectedAgents[r]) = 3
    /\ Len(subtasks[r]) = 1
    /\ Len(calls[r]) = 3

\* the lines of the text that carry the SUBTASK marker, in any case, and a
\* colon
MarkerLinesWithColon(text) ==
  SelectSeq(split(text, Newline),
            LAMBDA l : includes(toUpperCase(l), SubtaskMarker) /\ includes(l, <<":">>))

\* what follows the first colon of the line
AfterFirstColon(line) == SubSeq(line, indexOf(line, <<":">>) + 1, Len(line))

\* the first n elements of the sequence, all of them when it has fewer
FirstAtMost(xs, n) == SubSeq(xs, 1, IF Len(xs) < n THEN Len(xs) ELSE n)

\* C32: the parsed subtasks are, in line order, the text after the
\* first colon, with the white space at both ends removed, of every line
\* that contains SUBTASK in any case and a colon (a marker line without a
\* colon contributes nothing); only when this scan yields no subtask are
\* they the paragraphs whose length without the white space at both ends is
\* more than 50 characters, returned as they stand, at most the first 3 in
\* their original order.
C32_TrimmedTextAfterColonOrLongParagraphs ==
  \A r \in ReqIds :
    WorkersDispatched(r) =>
      LET marked == MarkerLinesWithColon(taskBreakdown[r])
          scanned == [i \in 1..Len(marked) |-> trim(AfterFirstColon(marked[i]))]
          long == ParagraphsAtLeast(taskBreakdown[r], ParagraphMinLength + 1)
      IN  subtasks[r] = IF Len(marked) > 0 THEN scanned ELSE FirstAtMost(long, 3)

\* a decomposition whose first line has the marker and no colon and whose
\* second line has the marker in lower case and two colons was parsed into
\* the one subtask 'a:b'
C32_Witness ==
  \E r \in ReqIds :
    /\ WorkersDispatched(r) /\ Finished(r)
    /\ Len(split(taskBreakdown[r], Newline)) = 2
    /\ split(taskBreakdown[r], Newline)[1] = SubtaskMarker
    /\ subtasks[r] = << <<"a", ":", "b">> >>

\* a decomposition of four long paragraphs was parsed into the first three
C32_WitnessCapped ==
  \E r \in ReqIds :
    /\ WorkersDispatched(r)
    /\ Len(split(taskBreakdown[r], ParagraphBreak)) = 4
    /\ subtasks[r] = <<Fill("p", 51), Fill("q", 51), Fill("r", 51)>>

\* a decomposition with a marker line without a colon and one long paragraph
\* was parsed into the paragraph
C32_WitnessFallbackAfterMarker ==
  \E r \in ReqIds :
    /\ WorkersDispatched(r)
    /\ ~NoSubtaskMarker(taskBreakdown[r])
    /\ subtasks[r] = <<Fill("q", 51)>>

\* a call of the leader of hierarchical request r was answered with a
\* failure, in the given values of pc, request, selectedAgents and calls
LeaderCallFailed(pcs, requests, selected, cs, r) ==
  /\ pcs[r] # "idle" /\ requests[r].type = "hierarchical" /\ selected[r] # <<>>
  /\ \E k \in 1..Len(cs[r]) :
       /\ cs[r][k].user.template \in {"leader", "hierarchicalSynthesis"}
       /\ cs[r][k].reply.kind \in {"error", "thrown"}

\* C33: once a call of the leader of a hierarchical collaboration, the
\* decomposition or the final synthesis, is answered with a failure,
\* collaborate has thrown and holds no result, whatever the workers
\* answered; in the step in which the failure arrives the statistics are
\* updated by one application of updateStats with success = false, and the
\* request stays thrown from then on.
C33_LeaderFailureThrows ==
  [][\A r \in ReqIds :
       LeaderCallFailed(pc', request', selectedAgents', calls', r) =>
         /\ pc'[r] = "thrown" /\ result'[r] = None
         /\ error'[r].kind = "Generator"
         /\ pc[r] # "thrown" =>
              LET total == stats.total_collaborations
              IN  stats' =
                    [total_collaborations |-> total,
                     success_rate |-> RunningMean(stats.success_rate, total, 0),
                     avg_execution_time |->
                       RunningMean(stats.avg_execution_time, total, now' - startTime[r]),
                     avg_agents_per_task |->
                       RunningMean(stats.avg_agents_per_task, total,
                                   Len(request[r].agents))]
         /\ pc[r] = "thrown" => (error'[r] = error[r] /\ calls'[r] = calls[r])]_vars

\* a hierarchical request whose worker succeeded has thrown on the failure
\* of the synthesis call, while another request had started: the rate of
\* successes is still 0 of 2
C33_Witness ==
  \E r \in ReqIds :
    /\ pc[r] = "thrown" /\ request[r].type = "hierarchical"
    /\ Len(calls[r]) = 3
    /\ calls[r][2].reply.kind = "content"
    /\ calls[r][3].user.template = "hierarchicalSynthesis"
    /\ calls[r][3].reply.kind = "error"
    /\ stats.total_collaborations = 2

\* a hierarchical request has thrown on the failure of the decomposition
\* call, before any worker call
C33_WitnessDecomposition ==
  \E r \in ReqIds :
    /\ pc[r] = "thrown" /\ request[r].type = "hierarchical"
    /\ Len(calls[r]) = 1
    /\ calls[r][1].reply.kind = "error"

\* the rational q, a pair of numerator and positive denominator, lies in
\* [0, 1]
InUnitInterval(q) == q[2] > 0 /\ 0 <= q[1] /\ q[1] <= q[2]

\* C34: in every reachable state, whatever the interleaving of overlapping
\* process and collaborate requests and whichever of them succeed or fail,
\* the success_rate of the engine's statistics and the success_rate of the
\* orchestrator's statistics lie in [0, 1].
C34_SuccessRateInUnitInterval ==
  /\ InUnitInterval(engineStats.success_rate)
  /\ InUnitInterval(stats.success_rate)

\* two overlapping process requests finished, the first to finish with a
\* failure and the second with success, and two overlapping collaborate
\* requests finished, the first with success and the second without: from
\* the initial rates 1 and 0.95 the rates have become 3/4 and 39/80
C34_Witness ==
  /\ engineStats.total_processes = 2 /\ engineStats.success_rate = Rat(3, 4)
  /\ stats.total_collaborations = 2 /\ stats.success_rate = Rat(39, 80)
  /\ \A r \in 1..2 : engine[r].pc \in {"returned", "thrown"} /\ Finished(r)

\* the latest initialize() has completed successfully and no shutdown() has
\* completed since
BetweenInitializeAndShutdown(phase) == phase \in {"initialized", "shuttingDown"}

\* C35: every step in which a method behind the gate is invoked with an
\* acceptable request (processMessage, orchestrateAgents, queryRAG,
\* validateContent, startFineTuning, getSystemInfo, getPerformanceMetrics)
\* either finds the framework between a successful initialize and the
\* completion of the next shutdown, and then reaches its first component, or
\* finds it outside, and then throws in that very step with the memory, the
\* generator calls, the engine and the orchestrator as they were; the flag
\* isInitialized is set exactly over that span, and a failed initialize
\* leaves it unset.
C35_LifecycleGate ==
  [][/\ isInitialized' = BetweenInitializeAndShutdown(lifecycle')
     /\ lifecycle' = "initializeRejected" => ~isInitialized'
     /\ \A r \in ReqIds :
          (http[r].pc = "idle" /\ http'[r].pc # "idle") =>
            IF BetweenInitializeAndShutdown(lifecycle)
              THEN CASE http'[r].route = "chat" -> http'[r].pc = "storeUserMessage"
                     [] http'[r].route = "collaborate" ->
                          /\ pc'[r] # "idle"
                          /\ stats'.total_collaborations = stats.total_collaborations + 1
                     [] OTHER -> http'[r].pc = "component"
              ELSE /\ http'[r].pc = "responded"
                   /\ http'[r].response.status = 500
                   /\ UNCHANGED <<memory, orchestratorVars, reasoningVars>>]_vars

\* a method was called and reached its component while the framework was
\* initialized, and a later call, made after the shutdown had completed,
\* was rejected
C35_Witness ==
  /\ lifecycle = "shutDown" /\ ~isInitialized
  /\ http[1].pc \in {"storeUserMessage", "component"}
  /\ http[2].pc = "responded" /\ http[2].response.status = 500
  /\ http[2].route \in GatedMethods \cup {"chat", "collaborate"}

\* a call made after a failed initialize was rejected, and a call made
\* after a later, successful initialize stored the fine-tuning job
C35_WitnessFailedInitialize ==
  /\ lifecycle = "initialized" /\ isInitialized
  /\ http[1].pc = "responded" /\ http[1].response.status = 500
  /\ http[2].route = "startFineTuning"
  /\ http[2].pc = "responded" /\ http[2].response.status = 200
  /\ memory.total_contexts = 1

\* the assistant_response records in the memory
AssistantResponses ==
  {i \in 1..Len(memory.records) : memory.records[i].type = "assistant_response"}

\* C36: a response whose validation verdict is invalid with severity high or
\* critical is never stored as assistant_response and never returned by
\* processMessage: the request is answered with an error.
C36_HighOrWorseNeverReturned ==
  \A r \in ReqIds :
    (/\ http[r].route = "chat"
     /\ http[r].validation # None
     /\ ~http[r].validation.is_valid
     /\ http[r].validation.severity \in {"high", "critical"}) =>
       /\ AssistantResponses = {}
       /\ http[r].pc = "responded" => http[r].response.status = 500

\* C37: in processMessage the user_message record is in the memory before
\* the first generator call is issued; an assistant_response record is in
\* the memory only if reasoning has returned and the verdict of the
\* validation is not a rejected one; hence a request that has thrown because
\* reasoning threw or because the validation rejected the response leaves
\* the user_message record as the only record.
C37_RecordsFollowProgress ==
  \A r \in ReqIds :
    http[r].route = "chat" =>
      LET rejected == /\ http[r].validation # None
                      /\ ~http[r].validation.is_valid
                      /\ http[r].validation.severity = "high"
      IN  /\ engine[r].calls # <<>> =>
               /\ Len(memory.records) >= 1
               /\ memory.records[1].type = "user_message"
               /\ memory.records[1].content = http[r].body.message
          /\ AssistantResponses # {} =>
               /\ engine[r].pc = "returned"
               /\ http[r].validation # None /\ ~rejected
               /\ AssistantResponses = {2}
               /\ memory.records[2].content = engine[r].result.response
          /\ (http[r].pc = "responded" /\ (engine[r].pc = "thrown" \/ rejected)) =>
               /\ http[r].response.status = 500
               /\ Len(memory.records) = 1
               /\ memory.records[1].type = "user_message"

\* a request whose response the validation rejected has been answered with
\* the error: the memory holds the user_message record alone
C37_Witness ==
  \E r \in ReqIds :
    /\ http[r].pc = "responded" /\ http[r].response.status = 500
    /\ engine[r].pc = "returned"
    /\ http[r].validation # None /\ http[r].validation.severity = "high"
    /\ Len(memory.records) = 1
    /\ memory.total_contexts = 1

\* a request whose reasoning threw on the second generator call has been
\* answered with the error: the memory holds the user_message record alone
C37_WitnessReasoningFailed ==
  \E r \in ReqIds :
    /\ http[r].pc = "responded" /\ http[r].response.status = 500
    /\ engine[r].pc = "thrown" /\ Len(engine[r].calls) >= 2
    /\ Len(memory.records) = 1
    /\ memory.records[1].type = "user_message"

\* C38: the result of a hierarchical collaboration with w workers and s
\* parsed subtasks has min(s, w) + 2 steps: the leader's decomposition, the
\* worker steps in subtask order, each by the worker at the subtask's
\* position, and the leader's synthesis; the step_number of each step is its
\* position counted from 1, and final_result is the output of the last
\* step; with the leader as only agent the result has exactly 2 steps and
\* success = true, and no worker call was issued.
C38_HierarchicalTrace ==
  \A r \in ReqIds :
    (pc[r] = "returned" /\ result[r].type = "hierarchical") =>
      LET st == result[r].steps
          s == Len(subtasks[r])
          w == Len(selectedAgents[r]) - 1
          m == IF s < w THEN s ELSE w
          leader == selectedAgents[r][1]
      IN  /\ Len(st) = m + 2
          /\ \A k \in 1..Len(st) : st[k].step_number = k
          /\ st[1].agent = leader /\ st[1].input = request[r].task
          /\ st[1].output = taskBreakdown[r]
          /\ \A i \in 1..m :
               /\ st[i + 1].agent = selectedAgents[r][i + 1]
               /\ st[i + 1].input = subtasks[r][i]
               /\ st[i + 1].success = (calls[r][i + 1].reply.kind = "content")
          /\ st[m + 2].agent = leader /\ st[m + 2].input = SynthesisInputText
          /\ result[r].final_result = st[Len(st)].output
          /\ w = 0 =>
               /\ Len(st) = 2 /\ result[r].success
               /\ \A k \in 1..Len(calls[r]) : calls[r][k].user.template # "worker"

\* a hierarchical request with two different workers and the subtasks x and
\* y returned, the second worker having failed
C38_Witness ==
  \E r \in ReqIds :
    /\ pc[r] = "returned" /\ result[r].type = "hierarchical"
    /\ Len(result[r].steps) = 4
    /\ selectedAgents[r][2] # selectedAgents[r][3]
    /\ result[r].steps[2].input = <<"x">> /\ result[r].steps[2].success
    /\ result[r].steps[3].input = <<"y">> /\ ~result[r].steps[3].success
    /\ result[r].steps[4].step_number = 4

\* a hierarchical request with the leader as only agent returned two steps
\* and success = true although the decomposition had two subtasks
C38_WitnessLeaderAlone ==
  \E r \in ReqIds :
    /\ pc[r] = "returned" /\ result[r].type = "hierarchical"
    /\ Len(selectedAgents[r]) = 1
    /\ Len(subtasks[r]) = 2
    /\ Len(result[r].steps) = 2 /\ Len(calls[r]) = 2
    /\ result[r].success

\* C39: when process returns from the react loop after an action whose text
\* contains ANSWER, in any case, the response is the observation of the
\* ANSWER action, 'Final answer based on previous reasoning steps.',
\* whichever other keywords the action text contains.
C39_AnswerObservationReturned ==
  \A r \in ReqIds :
    (/\ engine[r].pc = "returned"
     /\ engine[r].request.type = "react"
     /\ engine[r].result.reasoning # <<>>
     /\ isFinalAnswer(engine[r].result.reasoning[Len(engine[r].result.reasoning)].action)) =>
       /\ actionObservations[4].keyword = AnswerKeyword
       /\ engine[r].result.response = actionObservations[4].observation
====
